---------------------------- MODULE Spec2Model ----------------------------
(***************************************************************************)
(* A model of resume-forge: the document decoder (FileParser), the         *)
(* heuristic field extractor (AIResumeExtractor) with the confidence map   *)
(* of ResumeParser.processResume, and the template substitution engine     *)
(* (TemplateProcessor).                                                    *)
(*                                                                         *)
(* A JavaScript string is a sequence of one-character strings.  A regular  *)
(* expression is a tree of nodes that a backtracking matcher runs with     *)
(* JavaScript's priorities (leftmost start, greedy quantifiers, ordered    *)
(* alternatives), so every pattern of the source is written node for node. *)
(***************************************************************************)
EXTENDS Integers, Sequences, FiniteSets, TLC

(***************************************************************************)
(* Characters                                                              *)
(***************************************************************************)
UpperSeq ==
  <<"A","B","C","D","E","F","G","H","I","J","K","L","M",
    "N","O","P","Q","R","S","T","U","V","W","X","Y","Z">>

LowerSeq ==
  <<"a","b","c","d","e","f","g","h","i","j","k","l","m",
    "n","o","p","q","r","s","t","u","v","w","x","y","z">>

Range(f) == { f[i] : i \in DOMAIN f }

UpperChars == Range(UpperSeq)

LowerChars == Range(LowerSeq)

DigitChars == {"0","1","2","3","4","5","6","7","8","9"}

\* \s of a JavaScript regular expression, and what String.trim() strips.
SpaceChars == {" ", "\n", "\t", "\r"}

PunctChars ==
  {"{", "}", "[", "]", "<", ">", "(", ")", ":", "/", "$", "&", ".", ",",
   "@", "-", "_", "+", "|", "#", "%", "=", "*", "?", "!"}

Char == UpperChars \cup LowerChars \cup DigitChars \cup SpaceChars \cup PunctChars

LetterChars == UpperChars \cup LowerChars

\* \w
WordChars == LetterChars \cup DigitChars \cup {"_"}

LowerOf ==
  [c \in Char |-> IF c \in UpperChars
                    THEN LowerSeq[CHOOSE i \in 1..26 : UpperSeq[i] = c]
                    ELSE c]

UpperOf ==
  [c \in Char |-> IF c \in LowerChars
                    THEN UpperSeq[CHOOSE i \in 1..26 : LowerSeq[i] = c]
                    ELSE c]

ToLowerChar(c) == LowerOf[c]

ToUpperChar(c) == UpperOf[c]

(***************************************************************************)
(* JavaScript string operations                                            *)
(***************************************************************************)
toLowerCase(s) == [i \in 1..Len(s) |-> ToLowerChar(s[i])]

toUpperCase(s) == [i \in 1..Len(s) |-> ToUpperChar(s[i])]

\* s.substring(i-1, j-1) in the source, zero-based there terms: s[i..j), one-based.
Slice(s, i, j) == IF j <= i THEN <<>> ELSE SubSeq(s, i, j - 1)

\* Whether t occurs in s at position i.
OccursAt(s, t, i) ==
  /\ i >= 1
  /\ i + Len(t) - 1 <= Len(s)
  /\ \A k \in 1..Len(t) : s[i + k - 1] = t[k]

\* s.includes(t)
includes(s, t) == \E i \in 1..(Len(s) + 1) : OccursAt(s, t, i)

\* s.trim()
trim(s) ==
  LET keep == { i \in 1..Len(s) : s[i] \notin SpaceChars }
  IN  IF keep = {} THEN <<>>
      ELSE LET lo == CHOOSE i \in keep : \A j \in keep : i <= j
               hi == CHOOSE i \in keep : \A j \in keep : j <= i
           IN  SubSeq(s, lo, hi)

\* JavaScript truthiness of a string: the empty string is falsy.
Truthy(s) == s # <<>>

RECURSIVE SplitFrom(_, _, _)
SplitFrom(s, sep, i) ==
  LET hits == { j \in i..Len(s) : s[j] = sep }
  IN  IF hits = {} THEN << Slice(s, i, Len(s) + 1) >>
      ELSE LET j == CHOOSE h \in hits : \A g \in hits : h <= g
           IN  << Slice(s, i, j) >> \o SplitFrom(s, sep, j + 1)

\* s.split(sep) for a one-character separator: always at least one piece.
split(s, sep) == SplitFrom(s, sep, 1)

RECURSIVE join(_, _)
\* pieces.join(sep)
join(pieces, sep) ==
  IF pieces = <<>> THEN <<>>
  ELSE IF Len(pieces) = 1 THEN pieces[1]
  ELSE pieces[1] \o sep \o join(Tail(pieces), sep)

RECURSIVE Concat(_)
Concat(pieces) ==
  IF pieces = <<>> THEN <<>> ELSE Head(pieces) \o Concat(Tail(pieces))

(***************************************************************************)
(* Regular expressions                                                     *)
(***************************************************************************)
\* An upper bound standing for an unbounded quantifier (*, +, {n,}); no
\* string of the model is that long.
Unbounded == 999

Chr(set)        == [t |-> "chr", set |-> set]
Seq_(items)     == [t |-> "seq", items |-> items]
Alt(alts)       == [t |-> "alt", alts |-> alts]
Rep(n, lo, hi)  == [t |-> "rep", node |-> n, min |-> lo, max |-> hi]
Star(n)         == Rep(n, 0, Unbounded)
Plus(n)         == Rep(n, 1, Unbounded)
Opt(n)          == Rep(n, 0, 1)
Bol             == [t |-> "bol"]   \* ^ with the m flag
Eol             == [t |-> "eol"]   \* $ with the m flag
Bos             == [t |-> "bos"]   \* ^ without the m flag
Eos             == [t |-> "eos"]   \* $ without the m flag
WordB           == [t |-> "wordb"] \* \b
Mark            == [t |-> "mark"]  \* the end of capture group 1

\* A match that passes Mark at position p and ends at e is reported as
\* e + MarkBase * p.
MarkBase == Unbounded + 1

One(c)    == Chr({c})
Not(set)  == Chr(Char \ set)
\* A run of literal characters, and the same under the i flag (held in
\* lower case and compared with the lower case of the text).
Lit(s)    == [t |-> "lit", s |-> s, ci |-> FALSE]
LitCI(s)  == [t |-> "lit", s |-> toLowerCase(s), ci |-> TRUE]

\* Whether the literal lit (in lower case) occurs in s at position i, case
\* ignored.
OccursAtCI(s, lit, i) ==
  /\ i >= 1
  /\ i + Len(lit) - 1 <= Len(s)
  /\ \A k \in 1..Len(lit) : LowerOf[s[i + k - 1]] = lit[k]

LineTerminators == {"\n", "\r"}

IsWordAt(s, i) == i >= 1 /\ i <= Len(s) /\ s[i] \in WordChars

\* The end m of a match, with the position p of the mark added to it.
MarkedAt(m, p) == IF m = 0 THEN 0 ELSE m + MarkBase * p

RECURSIVE MatchTodo(_, _, _)
RECURSIVE FirstAlt(_, _, _, _)
RECURSIVE TryRun(_, _, _, _, _)
\* The end (one past the last character) of the first match, in the
\* backtracking order, of the nodes of todo in sequence at position i of s;
\* 0 when there is none.
MatchTodo(todo, s, i) ==
  IF Len(todo) = 0 THEN i
  ELSE
    LET n    == todo[1]
        rest == Tail(todo)
    IN  CASE n.t = "chr" ->
               IF i <= Len(s) /\ s[i] \in n.set
                 THEN MatchTodo(rest, s, i + 1) ELSE 0
          [] n.t = "lit" ->
               IF (IF n.ci THEN OccursAtCI(s, n.s, i) ELSE OccursAt(s, n.s, i))
                 THEN MatchTodo(rest, s, i + Len(n.s)) ELSE 0
          [] n.t = "seq" -> MatchTodo(n.items \o rest, s, i)
          [] n.t = "alt" -> FirstAlt(n.alts, rest, s, i)
          [] n.t = "rep" /\ n.node.t = "chr" ->
               \* A repeated character class: the longest run first, then
               \* one character fewer at a time.
               LET stops == { j \in i..(Len(s) + 1) :
                                j = Len(s) + 1 \/ s[j] \notin n.node.set }
                   stop  == CHOOSE j \in stops : \A k \in stops : j <= k
                   run   == IF stop - i > n.max THEN n.max ELSE stop - i
               IN  TryRun(rest, s, i, run, n.min)
          [] n.t = "rep" ->
               LET again == [n EXCEPT !.min = IF n.min > 0 THEN n.min - 1 ELSE 0,
                                      !.max = n.max - 1]
                   more  == IF n.max > 0
                              THEN MatchTodo(<<n.node, again>> \o rest, s, i)
                              ELSE 0
               IN  IF more # 0 THEN more
                   ELSE IF n.min <= 0 THEN MatchTodo(rest, s, i) ELSE 0
          [] n.t = "bol" ->
               IF i = 1 \/ s[i - 1] \in LineTerminators
                 THEN MatchTodo(rest, s, i) ELSE 0
          [] n.t = "eol" ->
               IF i = Len(s) + 1 \/ s[i] \in LineTerminators
                 THEN MatchTodo(rest, s, i) ELSE 0
          [] n.t = "bos" -> IF i = 1 THEN MatchTodo(rest, s, i) ELSE 0
          [] n.t = "eos" -> IF i = Len(s) + 1 THEN MatchTodo(rest, s, i) ELSE 0
          [] n.t = "wordb" ->
               IF IsWordAt(s, i - 1) # IsWordAt(s, i)
                 THEN MatchTodo(rest, s, i) ELSE 0
          [] n.t = "mark" -> MarkedAt(MatchTodo(rest, s, i), i)

TryRun(rest, s, i, k, min) ==
  IF k < min THEN 0
  ELSE LET m == MatchTodo(rest, s, i + k)
       IN  IF m # 0 THEN m ELSE TryRun(rest, s, i, k - 1, min)

FirstAlt(alts, rest, s, i) ==
  IF Len(alts) = 0 THEN 0
  ELSE LET m == MatchTodo(<<alts[1]>> \o rest, s, i)
       IN  IF m # 0 THEN m ELSE FirstAlt(Tail(alts), rest, s, i)

MatchAt(re, s, i) == MatchTodo(<<re>>, s, i)

\* The least element of a set of positions, 0 for the empty set.
MinOrZero(S) == IF S = {} THEN 0 ELSE CHOOSE i \in S : \A j \in S : i <= j

\* Where the leftmost match of re in s at or after position from starts;
\* 0 when there is none.
Search(re, s, from) ==
  MinOrZero({ i \in from..(Len(s) + 1) : MatchAt(re, s, i) # 0 })

\* regex.test(s)
test(re, s) == Search(re, s, 1) # 0

\* s.startsWith(t)
startsWith(s, t) == OccursAt(s, t, 1)

\* The characters of a string literal.
Chars(str) == [i \in 1..Len(str) |-> SubSeq(str, i, i)]

\* s.match(re)[1] for a regular expression without the g flag that starts
\* with ^, holds one capture group and marks its end; NoMatch when s.match(re)
\* is null.
Null == << "null" >>

NoMatch == Null

GroupOf(s, m) == IF m = 0 THEN NoMatch ELSE Slice(s, 1, m \div MarkBase)

FirstGroup(s, re) == GroupOf(s, MatchAt(re, s, 1))

\* s.match(re)[0] for a regular expression without the g flag.
SpanOf(s, b, e) == IF b = 0 THEN NoMatch ELSE Slice(s, b, e)

FirstMatchAt(s, re, b) == SpanOf(s, b, IF b = 0 THEN 0 ELSE MatchAt(re, s, b))

FirstMatch(s, re) == FirstMatchAt(s, re, Search(re, s, 1))

RECURSIVE MatchAllFrom(_, _, _)
RECURSIVE MatchAllSpan(_, _, _, _)
\* s.match(re) for a regular expression with the g flag, from position i on:
\* the matches from left to right (the empty list stands for null).  After an
\* empty match the search moves on by one character.
MatchAllFrom(re, s, i) ==
  IF i > Len(s) + 1 THEN <<>>
  ELSE MatchAllSpan(re, s, Search(re, s, i), 0)

MatchAllSpan(re, s, b, e) ==
  IF b = 0 THEN <<>>
  ELSE IF e = 0 THEN MatchAllSpan(re, s, b, MatchAt(re, s, b))
  ELSE <<Slice(s, b, e)>> \o MatchAllFrom(re, s, IF e > b THEN e ELSE b + 1)

matchAll(s, re) == MatchAllFrom(re, s, 1)

RECURSIVE ExpandFrom(_, _, _, _, _)
\* The replacement patterns of String.prototype.replace in repl, for the
\* match s[b..e): $$ is a dollar sign and $& the match.  No pattern that is
\* replaced with a string has a capture group, so $1..$9 stay as they are;
\* the backtick and the apostrophe of the two remaining patterns are not
\* characters of the model.
ExpandFrom(repl, k, s, b, e) ==
  IF k > Len(repl) THEN <<>>
  ELSE IF repl[k] = "$" /\ k < Len(repl) /\ repl[k + 1] \in {"$", "&"}
    THEN (IF repl[k + 1] = "$" THEN <<"$">> ELSE Slice(s, b, e))
         \o ExpandFrom(repl, k + 2, s, b, e)
    ELSE <<repl[k]>> \o ExpandFrom(repl, k + 1, s, b, e)

RECURSIVE ReplaceFrom(_, _, _, _)
RECURSIVE ReplaceSpan(_, _, _, _, _, _)
\* The text from position i on with every match replaced.
ReplaceFrom(re, s, i, repl) ==
  ReplaceSpan(re, s, i, repl, Search(re, s, i), 0)

\* The same, the next match starting at b (0: there is none) and ending at
\* e (0: not yet looked for).  After an empty match the search moves on by
\* one character.
ReplaceSpan(re, s, i, repl, b, e) ==
  IF b = 0 THEN Slice(s, i, Len(s) + 1)
  ELSE IF e = 0 THEN ReplaceSpan(re, s, i, repl, b, MatchAt(re, s, b))
  ELSE Slice(s, i, b) \o ExpandFrom(repl, 1, s, b, e)
       \o (IF e > b THEN ReplaceFrom(re, s, e, repl)
           ELSE IF b > Len(s) THEN <<>>
           ELSE <<s[b]>> \o ReplaceFrom(re, s, b + 1, repl))

\* s.replace(re, repl) for a regular expression with the g flag.
replace(s, re, repl) == ReplaceFrom(re, s, 1, repl)

(***************************************************************************)
(* TemplateProcessor                                                       *)
(***************************************************************************)
\* The four bracket conventions around a word.
DoubleBrace(w) == <<"{","{">> \o w \o <<"}","}">>

SingleBrace(w) == <<"{">> \o w \o <<"}">>

Square(w) == <<"[">> \o w \o <<"]">>

Angle(w) == <<"<","<">> \o w \o <<">",">">>

\* The spellings of a table row, in the order the source lists them: the
\* bare key as {{key}}, {key}, [KEY], <<KEY>>, then each alias as {ALIAS},
\* {{ALIAS}}.
Spellings(key, aliases) ==
  << DoubleBrace(key), SingleBrace(key), Square(toUpperCase(key)),
     Angle(toUpperCase(key)) >>
  \o Concat([i \in 1..Len(aliases) |->
               << SingleBrace(aliases[i]), DoubleBrace(aliases[i]) >>])

\* Object.entries(FIELD_MAPPINGS): the rows in insertion order.
FIELD_MAPPINGS ==
  << [key |-> "name", placeholders |-> Spellings(Chars("name"), <<Chars("FULL_NAME")>>)],
     [key |-> "email", placeholders |-> Spellings(Chars("email"), <<Chars("EMAIL_ADDRESS")>>)],
     [key |-> "phone", placeholders |-> Spellings(Chars("phone"), <<Chars("PHONE_NUMBER")>>)],
     [key |-> "location", placeholders |-> Spellings(Chars("location"), <<Chars("ADDRESS")>>)],
     [key |-> "summary", placeholders |-> Spellings(Chars("summary"), <<Chars("PROFESSIONAL_SUMMARY"), Chars("OBJECTIVE")>>)],
     [key |-> "experience", placeholders |-> Spellings(Chars("experience"), <<Chars("WORK_EXPERIENCE"), Chars("EMPLOYMENT")>>)],
     [key |-> "education", placeholders |-> Spellings(Chars("education"), <<Chars("ACADEMIC_BACKGROUND")>>)],
     [key |-> "skills", placeholders |-> Spellings(Chars("skills"), <<Chars("TECHNICAL_SKILLS")>>)],
     [key |-> "projects", placeholders |-> Spellings(Chars("projects"), <<Chars("PROJECT_EXPERIENCE")>>)],
     [key |-> "certifications", placeholders |-> Spellings(Chars("certifications"), <<Chars("CERTIFICATES")>>)],
     [key |-> "languages", placeholders |-> Spellings(Chars("languages"), <<Chars("LANGUAGE_SKILLS")>>)],
     [key |-> "references", placeholders |-> Spellings(Chars("references"), <<Chars("PROFESSIONAL_REFERENCES")>>)] >>

\* The record keys of the extractor's schema (AIResumeExtractor) ...
RecordKeys ==
  {"name", "email", "phone", "location", "website", "linkedin", "summary",
   "experience", "education", "skills", "projects", "certifications",
   "languages", "achievements"}

\* fields[fieldKey]: a key the record does not have reads as undefined.
\* It is a one-element sequence whose element is no character, so that it
\* compares with every string and equals none.
Undefined == << "undefined" >>

Get(fields, key) == IF key \in DOMAIN fields THEN fields[key] ELSE Undefined

\* fieldValue && fieldValue.trim()
HasValue(fieldValue) == fieldValue # Undefined /\ Truthy(fieldValue) /\ Truthy(trim(fieldValue))

\* new RegExp(escaped placeholder, 'gi'): every metacharacter of the
\* placeholder is escaped, so the pattern is the literal, case-insensitive.
PlaceholderRegex(placeholder) == LitCI(placeholder)

\* new RegExp(`\\s*${escaped placeholder}\\s*`, 'gi')
PlaceholderWithSpaceRegex(placeholder) ==
  Seq_(<< Star(Chr(SpaceChars)), LitCI(placeholder), Star(Chr(SpaceChars)) >>)

\* Whether the placeholder occurs in the text, case ignored.
Mentions(processedContent, lower) ==
  \E i \in 1..Len(processedContent) : OccursAtCI(processedContent, lower, i)

\* One turn of the inner forEach: one placeholder of one field.  (A text in
\* which the placeholder does not occur is what both replace calls return
\* unchanged.)
ReplaceOnePlaceholder(processedContent, placeholder, fieldValue) ==
  IF ~Mentions(processedContent, toLowerCase(placeholder))
    THEN processedContent
  ELSE IF HasValue(fieldValue)
    THEN replace(processedContent, PlaceholderRegex(placeholder), fieldValue)
    ELSE replace(processedContent, PlaceholderWithSpaceRegex(placeholder), <<>>)

RECURSIVE ReplacePlaceholdersOf(_, _, _, _)
\* The inner forEach from the k-th placeholder of a row on.  (The first test
\* is never true: it makes the evaluation of one assignment to
\* processedContent finish before the next one starts.)
ReplacePlaceholdersOf(processedContent, placeholders, k, fieldValue) ==
  IF Len(processedContent) < 0 \/ k > Len(placeholders) THEN processedContent
  ELSE ReplacePlaceholdersOf(
         ReplaceOnePlaceholder(processedContent, placeholders[k], fieldValue),
         placeholders, k + 1, fieldValue)

RECURSIVE ReplaceFields(_, _, _, _)
\* The outer forEach from the r-th row of the table on.
ReplaceFields(processedContent, mappings, r, fields) ==
  IF Len(processedContent) < 0 \/ r > Len(mappings) THEN processedContent
  ELSE ReplaceFields(
         ReplacePlaceholdersOf(processedContent, mappings[r].placeholders, 1,
                               Get(fields, mappings[r].key)),
         mappings, r + 1, fields)

\* /\{\{date\}\}|\{date\}|\[DATE\]|<<DATE>>/gi
DateRegex ==
  Alt(<< LitCI(DoubleBrace(Chars("date"))), LitCI(SingleBrace(Chars("date"))),
         LitCI(Square(toUpperCase(Chars("date")))), LitCI(Angle(toUpperCase(Chars("date")))) >>)

\* /\{\{[^}]+\}\}/g
DoubleBraceToken == Seq_(<< Lit(<<"{","{">>), Plus(Not({"}"})), Lit(<<"}","}">>) >>)

\* /\{[^}]+\}/g
SingleBraceToken == Seq_(<< One("{"), Plus(Not({"}"})), One("}") >>)

\* /\[[^\]]+\]/g
SquareToken == Seq_(<< One("["), Plus(Not({"]"})), One("]") >>)

\* /<<[^>]+>>/g
AngleToken == Seq_(<< Lit(<<"<","<">>), Plus(Not({">"})), Lit(<<">",">">>) >>)

Ws == Star(Chr(SpaceChars))

\* <tag[^>]*>
OpenTag(tag) == Seq_(<< One("<"), LitCI(tag), Star(Not({">"})), One(">") >>)

\* <\/tag>
CloseTag(tag) == Seq_(<< Lit(<<"<","/">>), LitCI(tag), One(">") >>)

\* /<tr[^>]*>\s*<td[^>]*>\s*<\/td>\s*<\/tr>/gi
EmptyRow ==
  Seq_(<< OpenTag(<<"t","r">>), Ws, OpenTag(<<"t","d">>), Ws,
          CloseTag(<<"t","d">>), Ws, CloseTag(<<"t","r">>) >>)

\* /<td[^>]*>\s*<\/td>/gi
EmptyCell == Seq_(<< OpenTag(<<"t","d">>), Ws, CloseTag(<<"t","d">>) >>)

\* /<p[^>]*>\s*<\/p>/gi
EmptyParagraph == Seq_(<< OpenTag(<<"p">>), Ws, CloseTag(<<"p">>) >>)

\* /\s{3,}/g
SpaceRun == Rep(Chr(SpaceChars), 3, Unbounded)

\* /\n\s*\n\s*\n\s*/g
BlankLines == Seq_(<< One("\n"), Ws, One("\n"), Ws, One("\n"), Ws >>)

\* /^\s*[A-Za-z\s]+:\s*$/gm
LabelLine ==
  Seq_(<< Bol, Ws, Plus(Chr(LetterChars \cup SpaceChars)), One(":"), Ws, Eol >>)

RECURSIVE ReplaceChain(_, _, _)
\* content.replace(...).replace(...)...: the steps from the k-th on, each a
\* pair of a pattern and its replacement.
ReplaceChain(content, steps, k) ==
  IF Len(content) < 0 \/ k > Len(steps) THEN content
  ELSE ReplaceChain(replace(content, steps[k][1], steps[k][2]), steps, k + 1)

\* The four token removals that open cleanUnmatchedPlaceholders.
TokenSteps ==
  << <<DoubleBraceToken, <<>> >>, <<SingleBraceToken, <<>> >>,
     <<SquareToken, <<>> >>, <<AngleToken, <<>> >> >>

\* The HTML and white-space steps that follow them.
TidySteps ==
  << <<EmptyRow, <<>> >>,
     <<EmptyCell, <<"<","t","d",">","<","/","t","d",">">> >>,
     <<EmptyParagraph, <<>> >>,
     <<SpaceRun, <<" "," ">> >>,
     <<BlankLines, <<"\n","\n">> >>,
     <<LabelLine, <<>> >> >>

RemoveTokens(content) == ReplaceChain(content, TokenSteps, 1)

cleanUnmatchedPlaceholders(content) ==
  trim(ReplaceChain(RemoveTokens(content), TidySteps, 1))

\* currentDate is new Date().toLocaleDateString() at the time of the call.
replacePlaceholders(content, fields, date) ==
  cleanUnmatchedPlaceholders(
    replace(ReplaceFields(content, FIELD_MAPPINGS, 1, fields), DateRegex, date))


(***************************************************************************)
(* FileParser (src/utils/fileParser.ts)                                    *)
(*                                                                         *)
(* An error message is a sequence of fragments: the fixed texts of the     *)
(* source as they stand, an interpolated extension character by character. *)
(***************************************************************************)
\* array.pop() of a non-empty array
Pop(pieces) == pieces[Len(pieces)]

\* The extension in the letter case of the name.
fileExtensionAsWritten(name) == Pop(split(name, "."))

\* file.name.split('.').pop()?.toLowerCase()
fileExtension(name) == toLowerCase(Pop(split(name, ".")))

E_txt == <<"t","x","t">>

E_pdf == <<"p","d","f">>

E_docx == <<"d","o","c","x">>

E_doc == <<"d","o","c">>

\* The switch of parseFile: the decoder an extension selects, "none" for the
\* default branch.
DecoderFor(ext) ==
  CASE ext = E_txt -> "parseTxtFile"
    [] ext = E_pdf -> "parsePdfFile"
    [] ext = E_docx -> "parseDocxFile"
    [] ext = E_doc -> "parseDocxFile"
    [] OTHER -> "none"

\* `Unsupported file type: ${fileExtension}`
UnsupportedMessage(ext) == <<"Unsupported file type: ">> \o ext

\* The catch of parseFile:
\* `Failed to parse ${fileExtension?.toUpperCase()} file: ${error.message}`
WrapError(ext, message) ==
  <<"Failed to parse ">> \o toUpperCase(ext) \o <<" file: ">> \o message

TxtReadError == <<"Failed to read text file">>

PdfReadError == <<"Failed to read PDF file">>

PdfExtractError ==
  <<"Failed to extract text from PDF. The file might be scanned or corrupted.">>

DocxReadError == <<"Failed to read Word document">>

DocxExtractError ==
  <<"Failed to extract text from Word document. The file might be corrupted or password protected.">>

\* What a decoder or parseFile settles its promise with.
Pending == [kind |-> "pending", value |-> <<>>]

Resolved(text) == [kind |-> "resolved", value |-> text]

Rejected(message) == [kind |-> "rejected", value |-> message]

\* The file has no defect that makes the decoding library throw.
NoCause == "none"

RECURSIVE PdfTextFrom(_, _)
\* The loop over the pages of parsePdfFile from page pageNum on: the items of
\* a page joined by a space, a line feed after every page.
PdfTextFrom(pages, pageNum) ==
  IF pageNum > Len(pages) THEN <<>>
  ELSE join(pages[pageNum], <<" ">>) \o <<"\n">> \o PdfTextFrom(pages, pageNum + 1)

\* reader.onload of parseTxtFile
parseTxtFile(f) == Resolved(f.text)

\* reader.onload of parsePdfFile: the library throws, or the text is blank,
\* or the text is resolved.
parsePdfFile(f) ==
  IF f.cause # NoCause THEN Rejected(PdfExtractError)
  ELSE IF ~Truthy(trim(PdfTextFrom(f.pages, 1))) THEN Rejected(PdfExtractError)
  ELSE Resolved(PdfTextFrom(f.pages, 1))

\* reader.onload of parseDocxFile
parseDocxFile(f) ==
  IF f.cause # NoCause THEN Rejected(DocxExtractError)
  ELSE IF ~Truthy(trim(f.text)) THEN Rejected(DocxExtractError)
  ELSE Resolved(f.text)

\* What parseFile settles with once its decoder has settled: the text, or the
\* decoder's error wrapped by the catch.
Settle(ext, outcome) ==
  IF outcome.kind = "rejected" THEN Rejected(WrapError(ext, outcome.value))
  ELSE outcome

(***************************************************************************)
(* AIResumeExtractor (the pattern-based extractor)                         *)
(*                                                                         *)
(* A JavaScript value that is no string is a one-element sequence whose    *)
(* element is no character.                                                *)
(***************************************************************************)
Upper == Chr(UpperChars)

Lower == Chr(LowerChars)

Digit == Chr(DigitChars)

Letter == Chr(LetterChars)

Space == Chr(SpaceChars)

NonSpace == Not(SpaceChars)

\* . without the s flag
AnyChar == Not(LineTerminators)

\* (?:a|b|...) of literal words, and the same under the i flag
LitAlt(words) == Alt([i \in 1..Len(words) |-> Lit(Chars(words[i]))])

LitAltCI(words) == Alt([i \in 1..Len(words) |-> LitCI(Chars(words[i]))])

\* [A-Z][a-z]+
Capitalised == Seq_(<< Upper, Plus(Lower) >>)

\* emailMatch ? emailMatch[0] : ""
OrEmpty(m) == IF m = NoMatch THEN <<>> ELSE m

\* The regular expressions of namePatterns, the end of the group marked.
NamePatterns ==
  << Seq_(<< Bos, Capitalised, One(" "), Capitalised, Mark, Eos >>),
     Seq_(<< Bos, Capitalised, One(" "), Upper, One("."), One(" "),
             Capitalised, Mark, Eos >>),
     Seq_(<< Bos, Capitalised, One(" "), Capitalised, One(" "), Capitalised,
             Mark, Eos >>),
     Seq_(<< Bos, Upper, Plus(Upper), One(" "), Upper, Plus(Upper), Mark, Eos >>),
     Seq_(<< Bos, Capitalised, Rep(Seq_(<< Space, Capitalised >>), 1, 2), Mark,
             Opt(Seq_(<< Ws, One(","), Star(AnyChar) >>)), Eos >>) >>

\* The lines extractNameFallback passes over.
SkipsLine(line) ==
  \/ Len(line) > 60
  \/ includes(line, Chars("@"))
  \/ includes(line, Chars("www."))
  \/ includes(toLowerCase(line), Chars("resume"))
  \/ includes(toLowerCase(line), Chars("curriculum"))
  \/ includes(toLowerCase(line), Chars("cv"))
  \/ includes(line, Chars("http"))
  \/ test(Seq_(<< Bos, Digit >>), line)
  \/ includes(line, Chars("|"))

RECURSIVE NameByPattern(_, _)
RECURSIVE NameByGroup(_, _, _)
\* The inner loop over namePatterns from the k-th on: the name, or NoMatch.
NameByPattern(line, k) ==
  IF k > Len(NamePatterns) THEN NoMatch
  ELSE NameByGroup(line, k, FirstGroup(line, NamePatterns[k]))

NameByGroup(line, k, group) ==
  IF group # NoMatch /\ Truthy(group) /\ Len(split(group, " ")) <= 4
    THEN trim(group)
    ELSE NameByPattern(line, k + 1)

RECURSIVE NameFromLine(_, _)
RECURSIVE NameOrNextLine(_, _, _)
\* The outer loop over the first eight lines from the i-th on.
NameFromLine(lines, i) ==
  IF i > 8 \/ i > Len(lines) THEN <<>>
  ELSE IF SkipsLine(lines[i]) THEN NameFromLine(lines, i + 1)
  ELSE NameOrNextLine(lines, i, NameByPattern(lines[i], 1))

NameOrNextLine(lines, i, name) ==
  IF name # NoMatch THEN name ELSE NameFromLine(lines, i + 1)

extractNameFallback(lines) == NameFromLine(lines, 1)

\* /\b[A-Za-z0-9._%+-]+@[A-Za-z0-9.-]+\.[A-Z|a-z]{2,}\b/
EmailRegex ==
  Seq_(<< WordB,
          Plus(Chr(LetterChars \cup DigitChars \cup {".", "_", "%", "+", "-"})),
          One("@"),
          Plus(Chr(LetterChars \cup DigitChars \cup {".", "-"})),
          One("."),
          Rep(Chr(LetterChars \cup {"|"}), 2, Unbounded),
          WordB >>)

extractEmailFallback(content) == OrEmpty(FirstMatch(content, EmailRegex))

\* [-.\s]?
DashDotSpace == Opt(Chr({"-", "."} \cup SpaceChars))

\* [\s\-]?
SpaceDash == Opt(Chr({"-"} \cup SpaceChars))

\* [:.\s]*
LabelEnd == Star(Chr({":", "."} \cup SpaceChars))

PhoneLabel == LitAltCI(<< "phone", "tel", "mobile", "cell" >>)

\* /(?:phone|tel|mobile|cell)[:.\s]*/gi
PhoneLabelRegex == Seq_(<< PhoneLabel, LabelEnd >>)

PhonePatterns ==
  << \* /(\+?1[-.\s]?)?\(?([0-9]{3})\)?[-.\s]?([0-9]{3})[-.\s]?([0-9]{4})/g
     Seq_(<< Opt(Seq_(<< Opt(One("+")), One("1"), DashDotSpace >>)),
             Opt(One("(")), Rep(Digit, 3, 3), Opt(One(")")), DashDotSpace,
             Rep(Digit, 3, 3), DashDotSpace, Rep(Digit, 4, 4) >>),
     \* /(\+?[1-9]\d{0,3}[-.\s]?)?\(?(\d{3,4})\)?[-.\s]?(\d{3,4})[-.\s]?(\d{3,4})/g
     Seq_(<< Opt(Seq_(<< Opt(One("+")), Chr(DigitChars \ {"0"}), Rep(Digit, 0, 3),
                         DashDotSpace >>)),
             Opt(One("(")), Rep(Digit, 3, 4), Opt(One(")")), DashDotSpace,
             Rep(Digit, 3, 4), DashDotSpace, Rep(Digit, 3, 4) >>),
     \* /(?:phone|tel|mobile|cell)[:.\s]*(\+?[\d\s\-\(\)\.]{10,})/gi
     Seq_(<< PhoneLabel, LabelEnd, Opt(One("+")),
             Rep(Chr(DigitChars \cup SpaceChars \cup {"-", "(", ")", "."}),
                 10, Unbounded) >>),
     \* /(\+\d{1,3}[\s\-]?\d{3,4}[\s\-]?\d{3,4}[\s\-]?\d{3,4})/g
     Seq_(<< One("+"), Rep(Digit, 1, 3), SpaceDash, Rep(Digit, 3, 4), SpaceDash,
             Rep(Digit, 3, 4), SpaceDash, Rep(Digit, 3, 4) >>) >>

\* matches.sort((a, b) => b.length - a.length)[0]: the sort is stable, so the
\* first of the longest matches.
Longest(matches) ==
  matches[CHOOSE i \in 1..Len(matches) :
            /\ \A j \in 1..Len(matches) : Len(matches[j]) <= Len(matches[i])
            /\ \A j \in 1..(i - 1) : Len(matches[j]) < Len(matches[i])]

RECURSIVE PhoneByPattern(_, _)
RECURSIVE PhoneOfMatches(_, _, _)
RECURSIVE PhoneIfLong(_, _, _)
\* The loop over phonePatterns from the k-th on.
PhoneByPattern(content, k) ==
  IF k > Len(PhonePatterns) THEN <<>>
  ELSE PhoneOfMatches(content, k, matchAll(content, PhonePatterns[k]))

PhoneOfMatches(content, k, matches) ==
  IF matches = <<>> THEN PhoneByPattern(content, k + 1)
  ELSE PhoneIfLong(content, k, trim(replace(Longest(matches), PhoneLabelRegex, <<>>)))

PhoneIfLong(content, k, phone) ==
  IF Len(phone) >= 10 THEN phone ELSE PhoneByPattern(content, k + 1)

extractPhoneFallback(content) == PhoneByPattern(content, 1)

LocationLabel == LitAltCI(<< "location", "address", "based in", "lives in" >>)

\* /(?:location|address|based in|lives in)[:.\s]*/gi
LocationLabelRegex == Seq_(<< LocationLabel, LabelEnd >>)

LocationPatterns ==
  << \* /([A-Z][a-z]+,\s*[A-Z]{2}(?:\s+\d{5})?)/g
     Seq_(<< Capitalised, One(","), Ws, Rep(Upper, 2, 2),
             Opt(Seq_(<< Plus(Space), Rep(Digit, 5, 5) >>)) >>),
     \* /([A-Z][a-z]+\s*[A-Z][a-z]*,\s*[A-Z][a-z]+)/g
     Seq_(<< Capitalised, Ws, Upper, Star(Lower), One(","), Ws, Capitalised >>),
     \* /([A-Z][a-z]+,\s*[A-Z][a-z]+,\s*[A-Z]{2,})/g
     Seq_(<< Capitalised, One(","), Ws, Capitalised, One(","), Ws,
             Rep(Upper, 2, Unbounded) >>),
     \* /(?:location|address|based in|lives in)[:.\s]*([A-Z][a-z\s,]+(?:[A-Z]{2,}|\d{5}))/gi
     \* (under the i flag a class of letters holds both cases)
     Seq_(<< LocationLabel, LabelEnd, Letter,
             Plus(Chr(LetterChars \cup SpaceChars \cup {","})),
             Alt(<< Rep(Letter, 2, Unbounded), Rep(Digit, 5, 5) >>) >>),
     \* /([A-Z][a-z]+(?:\s[A-Z][a-z]+)?,\s*[A-Z]{2,})/g
     Seq_(<< Capitalised, Opt(Seq_(<< Space, Capitalised >>)), One(","), Ws,
             Rep(Upper, 2, Unbounded) >>) >>

RECURSIVE LocationByPattern(_, _)
RECURSIVE LocationByMatch(_, _, _, _)
RECURSIVE LocationIfPlace(_, _, _, _, _)
\* The loop over locationPatterns from the k-th on.
LocationByPattern(content, k) ==
  IF k > Len(LocationPatterns) THEN <<>>
  ELSE LocationByMatch(content, k, matchAll(content, LocationPatterns[k]), 1)

\* The loop over the matches of a pattern from the n-th on.
LocationByMatch(content, k, matches, n) ==
  IF n > Len(matches) THEN LocationByPattern(content, k + 1)
  ELSE LocationIfPlace(content, k, matches, n,
                       trim(replace(matches[n], LocationLabelRegex, <<>>)))

LocationIfPlace(content, k, matches, n, location) ==
  IF Len(location) > 3 /\ includes(location, Chars(","))
    THEN location
    ELSE LocationByMatch(content, k, matches, n + 1)

extractLocationFallback(content) == LocationByPattern(content, 1)

WebsiteLabel == LitAltCI(<< "website", "portfolio", "site" >>)

\* /(?:website|portfolio|site)[:.\s]*/gi
WebsiteLabelRegex == Seq_(<< WebsiteLabel, LabelEnd >>)

\* https?:\/\/
Scheme == Seq_(<< Lit(Chars("http")), Opt(One("s")), Lit(Chars("://")) >>)

SchemeCI == Seq_(<< LitCI(Chars("http")), Opt(Chr({"s", "S"})), Lit(Chars("://")) >>)

WebsitePatterns ==
  << \* /(https?:\/\/[^\s]+)/g
     Seq_(<< Scheme, Plus(NonSpace) >>),
     \* /(www\.[^\s]+)/g
     Seq_(<< Lit(Chars("www.")), Plus(NonSpace) >>),
     \* /(?:website|portfolio|site)[:.\s]*((?:https?:\/\/)?[^\s]+\.[a-z]{2,})/gi
     Seq_(<< WebsiteLabel, LabelEnd, Opt(SchemeCI), Plus(NonSpace), One("."),
             Rep(Letter, 2, Unbounded) >>) >>

\* url.startsWith('http') ? url : `https://${url}`
WithScheme(url) ==
  IF startsWith(url, Chars("http")) THEN url ELSE Chars("https://") \o url

RECURSIVE WebsiteByPattern(_, _)
RECURSIVE WebsiteByMatch(_, _, _, _)
RECURSIVE WebsiteIfUrl(_, _, _, _, _)
WebsiteByPattern(content, k) ==
  IF k > Len(WebsitePatterns) THEN <<>>
  ELSE WebsiteByMatch(content, k, matchAll(content, WebsitePatterns[k]), 1)

WebsiteByMatch(content, k, matches, n) ==
  IF n > Len(matches) THEN WebsiteByPattern(content, k + 1)
  ELSE WebsiteIfUrl(content, k, matches, n,
                    trim(replace(matches[n], WebsiteLabelRegex, <<>>)))

WebsiteIfUrl(content, k, matches, n, url) ==
  IF /\ includes(url, Chars("."))
     /\ ~includes(url, Chars("@"))
     /\ ~includes(url, Chars("linkedin"))
    THEN WithScheme(url)
    ELSE WebsiteByMatch(content, k, matches, n + 1)

extractWebsiteFallback(content) == WebsiteByPattern(content, 1)

LinkedInLabel == LitAltCI(<< "linkedin", "linked in" >>)

\* /(?:linkedin|linked in)[:.\s]*/gi
LinkedInLabelRegex == Seq_(<< LinkedInLabel, LabelEnd >>)

\* [a-zA-Z0-9-]+
ProfileName == Plus(Chr(LetterChars \cup DigitChars \cup {"-"}))

LinkedInPatterns ==
  << \* /(https?:\/\/)?(?:www\.)?linkedin\.com\/in\/[a-zA-Z0-9-]+/g
     Seq_(<< Opt(Scheme), Opt(Lit(Chars("www."))), Lit(Chars("linkedin.com/in/")),
             ProfileName >>),
     \* /(?:linkedin|linked in)[:.\s]*((?:https?:\/\/)?(?:www\.)?linkedin\.com\/in\/[a-zA-Z0-9-]+)/gi
     Seq_(<< LinkedInLabel, LabelEnd, Opt(SchemeCI), Opt(LitCI(Chars("www."))),
             LitCI(Chars("linkedin.com/in/")), ProfileName >>) >>

RECURSIVE LinkedInByPattern(_, _)
RECURSIVE LinkedInOfMatches(_, _, _)
LinkedInByPattern(content, k) ==
  IF k > Len(LinkedInPatterns) THEN <<>>
  ELSE LinkedInOfMatches(content, k, matchAll(content, LinkedInPatterns[k]))

LinkedInOfMatches(content, k, matches) ==
  IF matches = <<>> THEN LinkedInByPattern(content, k + 1)
  ELSE WithScheme(trim(replace(matches[1], LinkedInLabelRegex, <<>>)))

extractLinkedInFallback(content) == LinkedInByPattern(content, 1)

\* new RegExp(`^\\s*${keyword}\\s*:?\\s*$`, 'i')
SectionHeader(keyword) ==
  Seq_(<< Bos, Ws, LitCI(Chars(keyword)), Ws, Opt(One(":")), Ws, Eos >>)

\* /^[A-Z][A-Za-z\s]+:?\s*$/
NextHeader ==
  Seq_(<< Bos, Upper, Plus(Chr(LetterChars \cup SpaceChars)), Opt(One(":")), Ws,
          Eos >>)

\* A line that is short, begins with a capital and has no period or comma.
IsNextSectionByShape(nextLine) ==
  /\ Truthy(nextLine)
  /\ nextLine[1] \in UpperChars
  /\ Len(nextLine) < 50
  /\ ~includes(nextLine, Chars("."))
  /\ ~includes(nextLine, Chars(","))

\* The line that ends the body of a section.
IsNextSection(nextLine) ==
  /\ Truthy(nextLine)
  /\ test(NextHeader, nextLine)
  /\ Len(nextLine) < 50
  /\ ~includes(nextLine, Chars("."))
  /\ ~includes(nextLine, Chars(","))

RECURSIVE SectionLines(_, _)
RECURSIVE SectionLinesWith(_, _, _)
\* The loop that collects sectionContent, from line j on.
SectionLines(lines, j) ==
  IF j > Len(lines) THEN <<>>
  ELSE SectionLinesWith(lines, j, trim(lines[j]))

SectionLinesWith(lines, j, nextLine) ==
  IF IsNextSection(nextLine) THEN <<>>
  ELSE (IF Truthy(nextLine) THEN <<nextLine>> ELSE <<>>) \o SectionLines(lines, j + 1)

RECURSIVE SectionByKeyword(_, _, _, _)
RECURSIVE SectionOrNextLine(_, _, _, _, _)
\* The loops over the keywords from the k-th on and over the lines from the
\* i-th on.
SectionByKeyword(lines, keywords, k, i) ==
  IF k > Len(keywords) THEN <<>>
  ELSE IF i > Len(lines) THEN SectionByKeyword(lines, keywords, k + 1, 1)
  ELSE IF test(SectionHeader(keywords[k]), lines[i])
    THEN SectionOrNextLine(lines, keywords, k, i, SectionLines(lines, i + 1))
    ELSE SectionByKeyword(lines, keywords, k, i + 1)

SectionOrNextLine(lines, keywords, k, i, sectionContent) ==
  IF Len(sectionContent) > 0 THEN trim(join(sectionContent, <<"\n">>))
  ELSE SectionByKeyword(lines, keywords, k, i + 1)

extractSectionFallback(content, keywords) ==
  SectionByKeyword(split(content, "\n"), keywords, 1, 1)

commonSkills ==
  << "JavaScript", "Python", "Java", "C++", "C#", "PHP", "Ruby", "Go", "Rust", "Swift",
     "React", "Angular", "Vue", "Node.js", "Express", "Django", "Flask", "Spring",
     "HTML", "CSS", "SQL", "MongoDB", "PostgreSQL", "MySQL", "Redis",
     "AWS", "Azure", "Docker", "Kubernetes", "Git", "Linux", "Apache", "Nginx",
     "Machine Learning", "AI", "Data Science", "Analytics", "Tableau", "Power BI" >>

\* The scan that compares the lowered text with the names as they are spelled.
foundSkillsAsSpelled(lowerContent) ==
  SelectSeq([i \in 1..Len(commonSkills) |-> Chars(commonSkills[i])],
            LAMBDA skill : includes(lowerContent, skill))

\* The dictionary scan: the names of commonSkills that occur in the text,
\* case ignored, joined by ", ".
foundSkills(lowerContent) ==
  SelectSeq([i \in 1..Len(commonSkills) |-> Chars(commonSkills[i])],
            LAMBDA skill : includes(lowerContent, toLowerCase(skill)))

SkillsOr(skillsSection, content) ==
  IF Truthy(skillsSection) THEN skillsSection
  ELSE join(foundSkills(toLowerCase(content)), Chars(", "))

extractSkillsFallback(content) ==
  SkillsOr(extractSectionFallback(content,
             << "skills", "technical skills", "core competencies", "expertise",
                "technologies" >>),
           content)

\* content.split('\n').map(line => line.trim()).filter(line => line.length > 0)
TrimmedLines(content) ==
  SelectSeq([i \in 1..Len(split(content, "\n")) |-> trim(split(content, "\n")[i])],
            LAMBDA line : Len(line) > 0)

extractFallback(content) ==
  [name |-> extractNameFallback(TrimmedLines(content)),
   email |-> extractEmailFallback(content),
   phone |-> extractPhoneFallback(content),
   location |-> extractLocationFallback(content),
   website |-> extractWebsiteFallback(content),
   linkedin |-> extractLinkedInFallback(content),
   summary |-> extractSectionFallback(content,
                 << "summary", "profile", "objective", "about" >>),
   experience |-> extractSectionFallback(content,
                 << "experience", "work", "employment", "career", "professional" >>),
   education |-> extractSectionFallback(content,
                 << "education", "qualification", "academic", "degree" >>),
   skills |-> extractSkillsFallback(content),
   projects |-> extractSectionFallback(content,
                 << "projects", "portfolio", "work samples" >>),
   certifications |-> extractSectionFallback(content,
                 << "certification", "certificate", "licenses" >>),
   languages |-> extractSectionFallback(content, << "language", "linguistic" >>),
   achievements |-> extractSectionFallback(content,
                 << "achievement", "accomplishment", "award", "honor",
                    "recognition" >>)]

\* The defaultFields of validateExtractedFields: the keys of a record, each
\* with the empty string.
defaultFields == [key \in RecordKeys |-> <<>>]

\* typeof v === 'string'
IsString(v) == \A i \in 1..Len(v) : v[i] \in Char

Zero == << "number 0" >>

False == << "false" >>

\* The truthiness of a JavaScript value.
JsTruthy(v) ==
  IF IsString(v) THEN Truthy(v) ELSE v \notin {Undefined, Null, Zero, False}

\* The record with a truthy value of data copied as it is.
validateWithoutTypeCheck(data) ==
  [key \in DOMAIN defaultFields |->
     IF JsTruthy(Get(data, key)) THEN Get(data, key) ELSE defaultFields[key]]

\* validateExtractedFields(data) for a data that has properties: the default
\* of a key is kept unless data[key] is a truthy string, which is trimmed.
validateExtractedFields(data) ==
  [key \in DOMAIN defaultFields |->
     IF JsTruthy(Get(data, key)) /\ IsString(Get(data, key))
       THEN trim(Get(data, key))
       ELSE defaultFields[key]]

(***************************************************************************)
(* AIResumeExtractor as declared the second time in aiResumeExtractor.ts   *)
(* (line 217 on): the extractor that calls the remote service.  Its        *)
(* record has twelve keys, with references and without website, linkedin   *)
(* and achievements.  The definitions carry the names of the source with   *)
(* the suffix _2.                                                          *)
(***************************************************************************)
RecordKeys_2 ==
  {"name", "email", "phone", "location", "summary", "experience", "education",
   "skills", "projects", "certifications", "languages", "references"}

defaultFields_2 == [key \in RecordKeys_2 |-> <<>>]

validateExtractedFields_2(data) ==
  [key \in DOMAIN defaultFields_2 |->
     IF JsTruthy(Get(data, key)) /\ IsString(Get(data, key))
       THEN trim(Get(data, key))
       ELSE defaultFields_2[key]]

\* line.split(/\s+/).filter(word => word.length > 0): the runs of characters
\* that are no white space.
Words(line) == matchAll(line, Plus(NonSpace))

\* words.every(word => /^[A-Z][a-z]*$/.test(word))
IsName_2(words) ==
  \A i \in 1..Len(words) : test(Seq_(<< Bos, Upper, Star(Lower), Eos >>), words[i])

\* /resume|cv|developer|engineer|manager|director/i.test(line)
HasCommonWords_2(line) ==
  test(LitAltCI(<< "resume", "cv", "developer", "engineer", "manager", "director" >>),
       line)

RECURSIVE NameFromLine_2(_, _)
\* The loop over lines.slice(0, 5) from the i-th line on.
NameFromLine_2(lines, i) ==
  IF i > 5 \/ i > Len(lines) THEN <<>>
  ELSE IF /\ Len(Words(lines[i])) >= 2
          /\ Len(Words(lines[i])) <= 4
          /\ IsName_2(Words(lines[i]))
          /\ ~HasCommonWords_2(lines[i])
    THEN lines[i]
    ELSE NameFromLine_2(lines, i + 1)

extractNameFallback_2(lines) == NameFromLine_2(lines, 1)

\* /[a-zA-Z0-9._%+-]+@[a-zA-Z0-9.-]+\.[a-zA-Z]{2,}/
EmailRegex_2 ==
  Seq_(<< Plus(Chr(LetterChars \cup DigitChars \cup {".", "_", "%", "+", "-"})),
          One("@"),
          Plus(Chr(LetterChars \cup DigitChars \cup {".", "-"})),
          One("."),
          Rep(Letter, 2, Unbounded) >>)

extractEmailFallback_2(content) == OrEmpty(FirstMatch(content, EmailRegex_2))

phoneMatches_2 ==
  << \* /(\+?1[-.\s]?)?\(?\d{3}\)?[-.\s]?\d{3}[-.\s]?\d{4}/
     Seq_(<< Opt(Seq_(<< Opt(One("+")), One("1"), DashDotSpace >>)),
             Opt(One("(")), Rep(Digit, 3, 3), Opt(One(")")), DashDotSpace,
             Rep(Digit, 3, 3), DashDotSpace, Rep(Digit, 4, 4) >>),
     \* /(\+\d{1,3}[-.\s]?)?\d{10,}/
     Seq_(<< Opt(Seq_(<< One("+"), Rep(Digit, 1, 3), DashDotSpace >>)),
             Rep(Digit, 10, Unbounded) >>) >>

RECURSIVE FirstOfPatterns(_, _, _)
RECURSIVE FirstOfPatternsOr(_, _, _, _)
\* for (const pattern of patterns) { const match = content.match(pattern);
\* if (match) return match[0]; } return "": from the k-th pattern on.
FirstOfPatterns(content, patterns, k) ==
  IF k > Len(patterns) THEN <<>>
  ELSE FirstOfPatternsOr(content, patterns, k, FirstMatch(content, patterns[k]))

FirstOfPatternsOr(content, patterns, k, match) ==
  IF match # NoMatch THEN match ELSE FirstOfPatterns(content, patterns, k + 1)

extractPhoneFallback_2(content) == FirstOfPatterns(content, phoneMatches_2, 1)

\* The group of each pattern is the whole pattern, so match[1] is match[0].
locationPatterns_2 ==
  << \* /([A-Z][a-z]+,?\s+[A-Z]{2})/
     Seq_(<< Capitalised, Opt(One(",")), Plus(Space), Rep(Upper, 2, 2) >>),
     \* /([A-Z][a-z]+,\s*[A-Z][a-z]+)/
     Seq_(<< Capitalised, One(","), Ws, Capitalised >>) >>

extractLocationFallback_2(content) == FirstOfPatterns(content, locationPatterns_2, 1)

\* new RegExp(`\\b${keyword}[^\\n]*:?\\s*`, 'i')
SectionStart_2(keyword) ==
  Seq_(<< WordB, LitCI(Chars(keyword)), Star(Not({"\n"})), Opt(One(":")), Ws >>)

RECURSIVE FindIndex_2(_, _, _)
\* lines.findIndex(line => regex.test(line)), one-based, from the i-th line
\* on; 0 stands for -1.
FindIndex_2(lines, keyword, i) ==
  IF i > Len(lines) THEN 0
  ELSE IF test(SectionStart_2(keyword), lines[i]) THEN i
  ELSE FindIndex_2(lines, keyword, i + 1)

\* The line that ends a section: a header that holds no keyword of the
\* section.
IsOtherHeader_2(line, keywords) ==
  /\ test(NextHeader, line)
  /\ \A k \in 1..Len(keywords) :
       ~includes(toLowerCase(line), toLowerCase(Chars(keywords[k])))

RECURSIVE SectionLines_2(_, _, _, _)
RECURSIVE SectionLinesWith_2(_, _, _, _, _)
\* The loop that collects sectionLines from line i on, n lines collected.
SectionLines_2(lines, keywords, i, n) ==
  IF i > Len(lines) THEN <<>>
  ELSE SectionLinesWith_2(lines, keywords, i, n, trim(lines[i]))

SectionLinesWith_2(lines, keywords, i, n, line) ==
  IF ~Truthy(line) THEN SectionLines_2(lines, keywords, i + 1, n)
  ELSE IF IsOtherHeader_2(line, keywords) THEN <<>>
  ELSE <<line>> \o (IF n + 1 > 10 THEN <<>>
                    ELSE SectionLines_2(lines, keywords, i + 1, n + 1))

RECURSIVE SectionByKeyword_2(_, _, _)
RECURSIVE SectionFrom_2(_, _, _, _)
RECURSIVE SectionResult_2(_, _, _, _)
\* The loop over the keywords from the k-th on.
SectionByKeyword_2(lines, keywords, k) ==
  IF k > Len(keywords) THEN <<>>
  ELSE SectionFrom_2(lines, keywords, k, FindIndex_2(lines, keywords[k], 1))

SectionFrom_2(lines, keywords, k, sectionStartIndex) ==
  IF sectionStartIndex = 0 THEN SectionByKeyword_2(lines, keywords, k + 1)
  ELSE SectionResult_2(lines, keywords, k,
         trim(join(SectionLines_2(lines, keywords, sectionStartIndex + 1, 0),
                   <<"\n">>)))

SectionResult_2(lines, keywords, k, result) ==
  IF Len(result) > 10 THEN result ELSE SectionByKeyword_2(lines, keywords, k + 1)

extractSectionFallback_2(content, keywords) ==
  SectionByKeyword_2(split(content, "\n"), keywords, 1)

extractFallback_2(content) ==
  [name |-> extractNameFallback_2(TrimmedLines(content)),
   email |-> extractEmailFallback_2(content),
   phone |-> extractPhoneFallback_2(content),
   location |-> extractLocationFallback_2(content),
   summary |-> extractSectionFallback_2(content, << "summary", "profile", "objective" >>),
   experience |-> extractSectionFallback_2(content, << "experience", "work", "employment" >>),
   education |-> extractSectionFallback_2(content, << "education", "qualification" >>),
   skills |-> extractSectionFallback_2(content, << "skills", "technical", "expertise" >>),
   projects |-> extractSectionFallback_2(content, << "projects", "portfolio" >>),
   certifications |-> extractSectionFallback_2(content,
                        << "certification", "certificate", "award" >>),
   languages |-> extractSectionFallback_2(content, << "language" >>),
   references |-> extractSectionFallback_2(content, << "reference" >>)]

\* An exception with its message.
Thrown(message) == [thrown |-> message]

IsThrown(outcome) == "thrown" \in DOMAIN outcome

\* What the remote service does with the request.  fetch rejects; or the
\* response is not ok and has a status and a text; or response.json()
\* rejects; or the body is the JSON null; or the body is an object and
\* data.choices?.[0]?.message?.content is the given content (Undefined when
\* a link of the chain is missing).
FetchRejects(message) == [kind |-> "rejects", message |-> message]

NotOk(status, errorText) == [kind |-> "status", status |-> status, text |-> errorText]

BodyNotJson(message) == [kind |-> "badBody", message |-> message]

BodyNull == [kind |-> "nullBody"]

Body(content) == [kind |-> "body", content |-> content]

\* Three backticks, held as one character of the text.
Fence == "fence"

\* /```json\n?|\n?```/g
FenceRegex ==
  Alt(<< Seq_(<< Lit(<<Fence>> \o Chars("json")), Opt(One("\n")) >>),
         Seq_(<< Opt(One("\n")), Lit(<<Fence>>) >>) >>)

\* A JSON text is held as one character of the text, which names the value
\* JSON.parse gives for it: an object with its properties, or null.  Every
\* other text is no JSON.
JsonNull == "the JSON text null"

\* JSON.parse(text): the value, or the SyntaxError.
JSONparse(text, documents) ==
  IF Len(text) = 1 /\ text[1] = JsonNull THEN [kind |-> "null", props |-> <<>>]
  ELSE IF Len(text) = 1 /\ text[1] \in DOMAIN documents
    THEN [kind |-> "object", props |-> documents[text[1]]]
  ELSE Thrown(<<"Unexpected token in JSON">>)

\* The end of the try block: the cleaned response is parsed and validated.
\* Reading a property of null throws a TypeError.
ValidateParsed_2(parsed) ==
  IF IsThrown(parsed) THEN parsed
  ELSE IF parsed.kind = "null" THEN Thrown(<<"Cannot read properties of null">>)
  ELSE validateExtractedFields_2(parsed.props)

\* The try block of extractWithAI: a record, or what it throws.
TryExtractWithAI_2(answer, documents) ==
  CASE answer.kind = "rejects" -> Thrown(answer.message)
    [] answer.kind = "status" ->
         Thrown(<<"API request failed: ">> \o answer.status \o <<" - ">> \o answer.text)
    [] answer.kind = "badBody" -> Thrown(answer.message)
    [] answer.kind = "nullBody" -> Thrown(<<"Cannot read properties of null">>)
    [] answer.kind = "body" ->
         IF answer.content \in {Undefined, Null, <<>>}
           THEN Thrown(<<"No response from AI service">>)
           ELSE ValidateParsed_2(
                  JSONparse(trim(replace(answer.content, FenceRegex, <<>>)), documents))

\* The catch block: whatever the try block throws is thrown again, wrapped.
RethrowWrapped_2(outcome) ==
  IF IsThrown(outcome) THEN Thrown(<<"AI extraction failed: ">> \o outcome.thrown)
  ELSE outcome

\* extractWithAI(content, apiKey), the service answering with answer.
extractWithAI_2(content, apiKey, answer, documents) ==
  IF ~Truthy(apiKey) \/ ~Truthy(trim(apiKey))
    THEN Thrown(<<"API key is required for AI extraction">>)
    ELSE RethrowWrapped_2(TryExtractWithAI_2(answer, documents))

(***************************************************************************)
(* AIResumeExtractor as declared the first time in aiResumeExtractor.ts    *)
(* (line 3 on): the remote service with the pattern-based extraction as    *)
(* the fallback.  Its record has the fourteen keys, and its                *)
(* validateExtractedFields and extractEmailFallback are, word for word,    *)
(* those of the pattern-based class.  The other definitions carry the      *)
(* names of the source with the suffix _1.                                 *)
(***************************************************************************)
\* The lines extractNameFallback passes over.
SkipsLine_1(line) ==
  \/ Len(line) > 50
  \/ includes(line, Chars("@"))
  \/ includes(line, Chars("resume"))
  \/ includes(line, Chars("curriculum"))
  \/ includes(line, Chars("cv"))

RECURSIVE NameFromLine_1(_, _)
\* The loop over the first five lines from the i-th on; the pattern is
\* /^[A-Z][a-z]+ [A-Z][a-z]+/.
NameFromLine_1(lines, i) ==
  IF i > 5 \/ i > Len(lines) THEN <<>>
  ELSE IF /\ ~SkipsLine_1(lines[i])
          /\ test(Seq_(<< Bos, Capitalised, One(" "), Capitalised >>), lines[i])
          /\ Len(split(lines[i], " ")) <= 4
    THEN lines[i]
    ELSE NameFromLine_1(lines, i + 1)

extractNameFallback_1(lines) == NameFromLine_1(lines, 1)

\* The two patterns are the first two of the pattern-based class, without
\* the g flag.
extractPhoneFallback_1(content) ==
  FirstOfPatterns(content, SubSeq(PhonePatterns, 1, 2), 1)

\* The group of each pattern is the whole pattern, so match[1] is match[0].
locationPatterns_1 ==
  << \* /([A-Z][a-z]+,\s*[A-Z]{2})/
     Seq_(<< Capitalised, One(","), Ws, Rep(Upper, 2, 2) >>),
     \* /([A-Z][a-z]+\s*[A-Z][a-z]*,\s*[A-Z][a-z]+)/
     Seq_(<< Capitalised, Ws, Upper, Star(Lower), One(","), Ws, Capitalised >>),
     \* /([A-Z][a-z]+,\s*[A-Z][a-z]+,\s*[A-Z]{2,})/
     Seq_(<< Capitalised, One(","), Ws, Capitalised, One(","), Ws,
             Rep(Upper, 2, Unbounded) >>) >>

extractLocationFallback_1(content) == FirstOfPatterns(content, locationPatterns_1, 1)

\* /(https?:\/\/[^\s]+|www\.[^\s]+)/
extractWebsiteFallback_1(content) ==
  OrEmpty(FirstMatch(content,
            Alt(<< Seq_(<< Scheme, Plus(NonSpace) >>),
                   Seq_(<< Lit(Chars("www.")), Plus(NonSpace) >>) >>)))

\* /(https?:\/\/)?(?:www\.)?linkedin\.com\/in\/[a-zA-Z0-9-]+/
extractLinkedInFallback_1(content) ==
  OrEmpty(FirstMatch(content, LinkedInPatterns[1]))

\* The line that ends the body of a section.
IsNextSection_1(nextLine) ==
  /\ Truthy(nextLine)
  /\ test(NextHeader, nextLine)
  /\ Len(nextLine) < 30
  /\ ~includes(nextLine, Chars("."))

RECURSIVE SectionLines_1(_, _)
RECURSIVE SectionLinesWith_1(_, _, _)
SectionLines_1(lines, j) ==
  IF j > Len(lines) THEN <<>>
  ELSE SectionLinesWith_1(lines, j, trim(lines[j]))

SectionLinesWith_1(lines, j, nextLine) ==
  IF IsNextSection_1(nextLine) THEN <<>>
  ELSE (IF Truthy(nextLine) THEN <<nextLine>> ELSE <<>>) \o SectionLines_1(lines, j + 1)

RECURSIVE SectionByKeyword_1(_, _, _, _)
RECURSIVE SectionOrNextLine_1(_, _, _, _, _)
SectionByKeyword_1(lines, keywords, k, i) ==
  IF k > Len(keywords) THEN <<>>
  ELSE IF i > Len(lines) THEN SectionByKeyword_1(lines, keywords, k + 1, 1)
  ELSE IF test(SectionHeader(keywords[k]), lines[i])
    THEN SectionOrNextLine_1(lines, keywords, k, i, SectionLines_1(lines, i + 1))
    ELSE SectionByKeyword_1(lines, keywords, k, i + 1)

SectionOrNextLine_1(lines, keywords, k, i, sectionContent) ==
  IF Len(sectionContent) > 0 THEN trim(join(sectionContent, <<"\n">>))
  ELSE SectionByKeyword_1(lines, keywords, k, i + 1)

extractSectionFallback_1(content, keywords) ==
  SectionByKeyword_1(split(content, "\n"), keywords, 1, 1)

extractFallback_1(content) ==
  [name |-> extractNameFallback_1(TrimmedLines(content)),
   email |-> extractEmailFallback(content),
   phone |-> extractPhoneFallback_1(content),
   location |-> extractLocationFallback_1(content),
   website |-> extractWebsiteFallback_1(content),
   linkedin |-> extractLinkedInFallback_1(content),
   summary |-> extractSectionFallback_1(content, << "summary", "profile", "objective" >>),
   experience |-> extractSectionFallback_1(content, << "experience", "work", "employment" >>),
   education |-> extractSectionFallback_1(content, << "education", "qualification" >>),
   skills |-> extractSectionFallback_1(content, << "skills", "technical", "expertise" >>),
   projects |-> extractSectionFallback_1(content, << "projects", "portfolio" >>),
   certifications |-> extractSectionFallback_1(content,
                        << "certification", "certificate", "award" >>),
   languages |-> extractSectionFallback_1(content, << "language" >>),
   achievements |-> extractSectionFallback_1(content,
                      << "achievement", "accomplishment", "award", "honor" >>)]

\* The end of the try block: the response text is parsed as it is, and the
\* value validated.
ValidateParsed_1(parsed) ==
  IF IsThrown(parsed) THEN parsed
  ELSE IF parsed.kind = "null" THEN Thrown(<<"Cannot read properties of null">>)
  ELSE validateExtractedFields(parsed.props)

\* The try block of extractWithAI: a record, or what it throws.
TryExtractWithAI_1(answer, documents) ==
  CASE answer.kind = "rejects" -> Thrown(answer.message)
    [] answer.kind = "status" ->
         Thrown(<<"API request failed: ">> \o answer.status \o <<" ">> \o answer.text)
    [] answer.kind = "badBody" -> Thrown(answer.message)
    [] answer.kind = "nullBody" -> Thrown(<<"Cannot read properties of null">>)
    [] answer.kind = "body" ->
         IF answer.content \in {Undefined, Null}
           THEN Thrown(<<"Cannot read properties of undefined">>)
           ELSE ValidateParsed_1(JSONparse(trim(answer.content), documents))

\* The catch block: whatever the try block throws, the pattern-based
\* extraction of the same content is returned.
FallBack_1(outcome, content) ==
  IF IsThrown(outcome) THEN extractFallback_1(content) ELSE outcome

\* extractWithAI(content, apiKey), the service answering with answer.
extractWithAI_1(content, apiKey, answer, documents) ==
  IF ~Truthy(apiKey) \/ ~Truthy(trim(apiKey))
    THEN Thrown(<<"API key is required for AI extraction">>)
    ELSE FallBack_1(TryExtractWithAI_1(answer, documents), content)

(***************************************************************************)
(* ResumeParser.processResume                                              *)
(***************************************************************************)
processingSteps ==
  << "Reading file content...", "Analyzing document structure...",
     "Extracting personal information...", "Processing work experience...",
     "Identifying skills and education...", "Finalizing extraction..." >>

\* The confidence map of processResume, in hundredths.
confidenceScoresOf(extractedFields) ==
  [name |-> IF Truthy(extractedFields.name)
              THEN (IF Len(extractedFields.name) > 5 THEN 90 ELSE 70) ELSE 0,
   email |-> IF Truthy(extractedFields.email)
              THEN (IF includes(extractedFields.email, Chars("@")) THEN 95 ELSE 60) ELSE 0,
   phone |-> IF Truthy(extractedFields.phone)
              THEN (IF Len(extractedFields.phone) > 8 THEN 85 ELSE 60) ELSE 0,
   location |-> IF Truthy(extractedFields.location)
              THEN (IF includes(extractedFields.location, Chars(",")) THEN 80 ELSE 60) ELSE 0,
   summary |-> IF Truthy(extractedFields.summary)
              THEN (IF Len(extractedFields.summary) > 50 THEN 80 ELSE 50) ELSE 0,
   experience |-> IF Truthy(extractedFields.experience)
              THEN (IF Len(extractedFields.experience) > 100 THEN 85 ELSE 60) ELSE 0,
   education |-> IF Truthy(extractedFields.education)
              THEN (IF Len(extractedFields.education) > 50 THEN 80 ELSE 60) ELSE 0,
   skills |-> IF Truthy(extractedFields.skills)
              THEN (IF Len(split(extractedFields.skills, ",")) > 2 THEN 90 ELSE 70) ELSE 0,
   projects |-> IF Truthy(extractedFields.projects)
              THEN (IF Len(extractedFields.projects) > 80 THEN 75 ELSE 50) ELSE 0,
   achievements |-> IF Truthy(extractedFields.achievements)
              THEN (IF Len(extractedFields.achievements) > 50 THEN 70 ELSE 40) ELSE 0]

\* The text processResume refuses: !fileContent || fileContent.trim().length < 50
InsufficientContent(fileContent) ==
  ~Truthy(fileContent) \/ Len(trim(fileContent)) < 50

InsufficientMessage ==
  <<"File appears to be empty or contains insufficient text content">>

\* `Failed to process resume: ${errorMessage}`
ProcessError(message) == <<"Failed to process resume: ">> \o message

(***************************************************************************)
(* State                                                                   *)
(***************************************************************************)
VARIABLES
  templateContent,   \* the decoded text of the template handed to replacePlaceholders
  fields,            \* the record handed to it
  currentDate,       \* what new Date().toLocaleDateString() returns
  processedContent,  \* what replacePlaceholders returned, NoOutput before the call
  templatePc,        \* where the processCustomTemplate call stands
  templateResult,    \* what its promise settled with
  file,              \* the File handed to parseFile: its name and what reading it gives
  parsePc,           \* where the parseFile call stands
  decoderCalls,      \* the decoders parseFile has called
  parseOutcome,      \* what the parseFile promise settled with
  resumePc,          \* where the processResume run stands
  stepIndex,         \* the i of its loop over processingSteps
  isProcessing,      \* the flag of the parent that setIsProcessing sets
  hasStarted,        \* state of the ResumeParser component
  isComplete,
  progress,          \* in units of 1 / processingSteps.length percent
  currentStep,
  error,
  fileContent,       \* the text handed to the extractor
  reply,             \* the parsed reply handed to validateExtractedFields
  extractedFields,   \* the record the extractor returned
  confidenceScores,  \* the confidence map computed from it
  calls,             \* the calls of extractFallback made by themselves so far
  delivered,         \* the calls of onFieldsExtracted so far
  useAI,             \* state of the ResumeParser that offers the remote service
  apiKey,
  showApiKeyInput,
  runUseAI,          \* the useAI the running processResume closed over
  extractorClass,    \* the declaration of AIResumeExtractor that is bundled
  wizardStep,        \* currentStep of the Index page
  wizardFields,      \* extractedFields of the Index page
  extractedConfidence,
  selectedTemplate,
  customTemplates,   \* state of the TemplateSelector: the templates uploaded into it
  selectorChoice,    \* selectedTemplate of the TemplateSelector
  localStorage,      \* the templates in the item 'customTemplates' of the storage
  isGenerating,      \* state of the ExportSection
  generationProgress, \* in eighths of 100 percent
  exportComplete,    \* isComplete of the ExportSection
  previewUrl,
  exportRuns,        \* the generateResume calls since the page was loaded
  exportOutcomes,    \* how the runs of the mounted ExportSection ended, in order
  downloads,         \* the names of the files downloadFile has handed over
  toast              \* the toast shown last

templateVars ==
  <<templateContent, fields, currentDate, processedContent, templatePc, templateResult>>

parserVars == <<file, parsePc, decoderCalls, parseOutcome>>

flagVars == <<isProcessing, hasStarted, isComplete, progress, currentStep, error>>

extractVars == <<fileContent, reply, extractedFields, confidenceScores, calls>>

aiVars == <<useAI, apiKey, showApiKeyInput, runUseAI, extractorClass>>

selectorVars == <<customTemplates, selectorChoice>>

exportVars ==
  <<localStorage, isGenerating, generationProgress, exportComplete, previewUrl,
    exportRuns, exportOutcomes, downloads, toast>>

wizardVars ==
  <<wizardStep, wizardFields, extractedConfidence, selectedTemplate, selectorVars,
    exportVars>>

resumeVars ==
  <<resumePc, stepIndex, flagVars, extractVars, delivered, aiVars, wizardVars>>

vars == <<templateVars, parserVars, resumeVars>>

\* No string: a one-element sequence whose element is no character.
NoOutput == << "no output" >>

\* A record with every key of the schema and the given values, "" elsewhere.
RecordWith(values) ==
  [k \in RecordKeys |-> IF k \in DOMAIN values THEN values[k] ELSE <<>>]

\* A file made of an empty name and nothing to read.
NoFile == [name |-> <<>>, reads |-> TRUE, cause |-> NoCause, text |-> <<>>, pages |-> <<>>]

\* No template is being processed.
TemplateIdle ==
  /\ templateContent = <<>>
  /\ fields = RecordWith(<<>>)
  /\ currentDate = <<>>
  /\ processedContent = NoOutput
  /\ templatePc = "idle"
  /\ templateResult = Pending

\* No record, no confidence map, no reply.
NoRecord == [none |-> TRUE]

\* The method selection as it is mounted, and the class of the pattern-based
\* extractor, which calls no remote service.
AIInit ==
  /\ useAI = FALSE
  /\ apiKey = <<>>
  /\ showApiKeyInput = FALSE
  /\ runUseAI = FALSE
  /\ extractorClass = "pattern-based"

\* A toast, and the page without a toast.
Toast(title, description) == [title |-> title, description |-> description]

NoToast == Toast("", <<>>)

\* The TemplateSelector as it is mounted.
SelectorIdle ==
  /\ customTemplates = <<>>
  /\ selectorChoice = ""

\* The ExportSection as it is mounted, on a page on which nothing was
\* generated yet.
ExportIdle ==
  /\ isGenerating = FALSE
  /\ generationProgress = 0
  /\ exportComplete = FALSE
  /\ previewUrl = <<>>
  /\ exportRuns = <<>>
  /\ exportOutcomes = <<>>
  /\ downloads = <<>>
  /\ toast = NoToast

\* The Index page while the ResumeParser is on it: the second step, no
\* record, no confidence map and no template yet.
WizardAtParser ==
  /\ wizardStep = 2
  /\ wizardFields = NoRecord
  /\ extractedConfidence = NoRecord
  /\ selectedTemplate = ""
  /\ SelectorIdle
  /\ ExportIdle
  /\ localStorage = <<>>

\* The most runs of processResume that deliver a record for one upload.
MaxRuns == 2

\* The ResumeParser component as it is mounted.
ResumeInit ==
  /\ AIInit
  /\ WizardAtParser
  /\ resumePc = "ready"
  /\ stepIndex = 0
  /\ isProcessing = FALSE
  /\ hasStarted = FALSE
  /\ isComplete = FALSE
  /\ progress = 0
  /\ currentStep = ""
  /\ error = Null
  /\ fileContent = <<>>
  /\ reply = NoRecord
  /\ extractedFields = NoRecord
  /\ confidenceScores = NoRecord
  /\ calls = <<>>
  /\ delivered = <<>>

\* parseFile has not been called.
ParserInit(files) ==
  /\ file \in files
  /\ parsePc = "idle"
  /\ decoderCalls = {}
  /\ parseOutcome = Pending

(***************************************************************************)
(* Bounds                                                                  *)
(***************************************************************************)
\* The longest template, in pieces of a palette.
MaxPieces == 3

\* Every text made of at most n pieces of the palette.
TextsOf(palette, n) ==
  UNION { { Concat(t) : t \in [1..k -> palette] } : k \in 0..n }

(***************************************************************************)
(* Template substitution: the call replacePlaceholders(content, fields)    *)
(***************************************************************************)
ProcessTemplate ==
  /\ processedContent = NoOutput
  /\ processedContent' = replacePlaceholders(templateContent, fields, currentDate)
  /\ UNCHANGED <<templateContent, fields, currentDate, templatePc, templateResult,
                 parserVars, resumeVars>>

\* The caller is done with the output; the same inputs can be processed again.
DiscardOutput ==
  /\ processedContent # NoOutput
  /\ processedContent' = NoOutput
  /\ UNCHANGED <<templateContent, fields, currentDate, templatePc, templateResult,
                 parserVars, resumeVars>>

TemplateNext == ProcessTemplate \/ DiscardOutput

TemplateInit(templates, records, dates) ==
  /\ templateContent \in templates
  /\ fields \in records
  /\ currentDate \in dates
  /\ processedContent = NoOutput
  /\ templatePc = "idle"
  /\ templateResult = Pending
  /\ ParserInit({NoFile})
  /\ ResumeInit

(***************************************************************************)
(* FileParser.parseFile and the callbacks of its readers                   *)
(***************************************************************************)
\* The call of parseFile up to the first await: the switch on the extension
\* calls a decoder, which starts its reader, or throws into the catch.
CallParseFile ==
  /\ parsePc = "idle"
  /\ LET ext == fileExtension(file.name)
     IN  IF DecoderFor(ext) = "none"
           THEN /\ parsePc' = "done"
                /\ parseOutcome' = Settle(ext, Rejected(UnsupportedMessage(ext)))
                /\ UNCHANGED decoderCalls
           ELSE /\ parsePc' = DecoderFor(ext)
                /\ decoderCalls' = decoderCalls \cup {DecoderFor(ext)}
                /\ UNCHANGED parseOutcome
  /\ UNCHANGED file

\* parseFile called by itself.
ParseFile == CallParseFile /\ UNCHANGED <<templateVars, resumeVars>>

\* A reader callback settles the decoder, and parseFile with it.
SettleWith(outcome) ==
  /\ parsePc' = "done"
  /\ parseOutcome' = Settle(fileExtension(file.name), outcome)
  /\ UNCHANGED <<file, decoderCalls, templateVars, resumeVars>>

TxtOnLoad == parsePc = "parseTxtFile" /\ file.reads /\ SettleWith(parseTxtFile(file))

TxtOnError == parsePc = "parseTxtFile" /\ ~file.reads /\ SettleWith(Rejected(TxtReadError))

PdfOnLoad == parsePc = "parsePdfFile" /\ file.reads /\ SettleWith(parsePdfFile(file))

PdfOnError == parsePc = "parsePdfFile" /\ ~file.reads /\ SettleWith(Rejected(PdfReadError))

DocxOnLoad == parsePc = "parseDocxFile" /\ file.reads /\ SettleWith(parseDocxFile(file))

DocxOnError == parsePc = "parseDocxFile" /\ ~file.reads /\ SettleWith(Rejected(DocxReadError))

ParserNext ==
  \/ ParseFile
  \/ TxtOnLoad \/ TxtOnError
  \/ PdfOnLoad \/ PdfOnError
  \/ DocxOnLoad \/ DocxOnError

(***************************************************************************)
(* ResumeParser: one run of processResume                                  *)
(***************************************************************************)
\* The click on "Start Processing Resume", shown while !hasStarted and
\* !isComplete: processResume up to its first await, the call of parseFile.
StartProcessing ==
  /\ wizardStep = 2
  /\ resumePc = "ready"
  /\ ~hasStarted /\ ~isComplete
  /\ Len(delivered) < MaxRuns
  /\ isProcessing' = TRUE
  /\ hasStarted' = TRUE
  /\ currentStep' = "Reading file content..."
  /\ CallParseFile
  /\ resumePc' = "reading"
  /\ UNCHANGED <<stepIndex, isComplete, progress, error, extractVars, delivered,
                 aiVars, templateVars, wizardVars>>

\* The catch of processResume without its setIsProcessing(false).
FailStillProcessing(message) ==
  /\ error' = ProcessError(message)
  /\ resumePc' = "failed"
  /\ UNCHANGED <<stepIndex, isProcessing, hasStarted, isComplete, progress, currentStep,
                 extractVars, delivered, aiVars, wizardVars>>

\* The catch of processResume.
Fail(message) ==
  /\ error' = ProcessError(message)
  /\ isProcessing' = FALSE
  /\ resumePc' = "failed"
  /\ UNCHANGED <<stepIndex, hasStarted, isComplete, progress, currentStep,
                 extractVars, delivered, aiVars, wizardVars>>

\* parseFile has settled: its error or a text that is too short goes to the
\* catch, another text starts the loop over processingSteps.
ContentRead ==
  /\ resumePc = "reading"
  /\ parsePc = "done"
  /\ IF parseOutcome.kind = "rejected" THEN Fail(parseOutcome.value)
     ELSE IF InsufficientContent(parseOutcome.value) THEN Fail(InsufficientMessage)
     ELSE /\ fileContent' = parseOutcome.value
          /\ stepIndex' = 0
          /\ currentStep' = processingSteps[1]
          /\ resumePc' = "steps"
          /\ UNCHANGED <<isProcessing, hasStarted, isComplete, progress, error,
                         reply, extractedFields, confidenceScores, calls, delivered,
                         aiVars, wizardVars>>
  /\ UNCHANGED <<templateVars, parserVars>>

\* The timer of a step has run out: the progress is set and the next step is
\* shown, or, after the last step, extractResumeFields runs the extractor and
\* starts its own timer.
StepDone ==
  /\ resumePc = "steps"
  /\ progress' = (stepIndex + 1) * 100
  /\ stepIndex' = stepIndex + 1
  /\ IF stepIndex + 1 < Len(processingSteps)
       THEN /\ currentStep' = processingSteps[stepIndex + 2]
            /\ UNCHANGED <<resumePc, extractedFields>>
       ELSE /\ extractedFields' = extractFallback(fileContent)
            /\ resumePc' = "extracting"
            /\ UNCHANGED currentStep
  /\ UNCHANGED <<isProcessing, hasStarted, isComplete, error, fileContent, calls, reply,
                 confidenceScores, delivered, aiVars, templateVars, parserVars,
                 wizardVars>>

\* extractResumeFields has returned: the confidence map is computed, the run
\* is shown as complete and the delivery is scheduled.
ExtractionDone ==
  /\ resumePc = "extracting"
  /\ confidenceScores' = confidenceScoresOf(extractedFields)
  /\ isComplete' = TRUE
  /\ currentStep' = "Processing complete!"
  /\ resumePc' = "delivering"
  /\ UNCHANGED <<stepIndex, isProcessing, hasStarted, progress, error, fileContent, calls,
                 reply, extractedFields, delivered, aiVars, templateVars, parserVars,
                 wizardVars>>

\* The step of the page changes: the TemplateSelector and the ExportSection
\* are on the page at one step each, so whichever is mounted now has the state
\* of useState, the state of the other is gone, and the generateResume calls
\* that are under way go on without a component.
RemountPanels ==
  /\ customTemplates' = <<>>
  /\ selectorChoice' = ""
  /\ isGenerating' = FALSE
  /\ generationProgress' = 0
  /\ exportComplete' = FALSE
  /\ previewUrl' = <<>>
  /\ exportOutcomes' = <<>>
  /\ exportRuns' = [r \in DOMAIN exportRuns |-> [exportRuns[r] EXCEPT !.live = FALSE]]
  /\ UNCHANGED <<localStorage, downloads, toast>>

\* handleFieldsExtracted(fields, confidence) of the Index page.
handleFieldsExtracted(record, confidence) ==
  /\ wizardFields' = record
  /\ extractedConfidence' = confidence
  /\ wizardStep' = 3
  /\ RemountPanels
  /\ UNCHANGED selectedTemplate

\* The callback of the delivery without its setIsProcessing(false).
DeliverStillProcessing ==
  /\ resumePc = "delivering"
  /\ delivered' = Append(delivered, <<extractedFields, confidenceScores>>)
  /\ handleFieldsExtracted(extractedFields, confidenceScores)
  /\ resumePc' = "done"
  /\ UNCHANGED <<stepIndex, isProcessing, hasStarted, isComplete, progress, currentStep,
                 error, extractVars, aiVars, templateVars, parserVars>>

\* The timer of the delivery has run out: onFieldsExtracted, which is
\* handleFieldsExtracted, and setIsProcessing(false).
Deliver ==
  /\ resumePc = "delivering"
  /\ delivered' = Append(delivered, <<extractedFields, confidenceScores>>)
  /\ handleFieldsExtracted(extractedFields, confidenceScores)
  /\ isProcessing' = FALSE
  /\ resumePc' = "done"
  /\ UNCHANGED <<stepIndex, hasStarted, isComplete, progress, currentStep, error,
                 extractVars, aiVars, templateVars, parserVars>>

ResumeNext ==
  \/ StartProcessing
  \/ TxtOnLoad \/ TxtOnError
  \/ PdfOnLoad \/ PdfOnError
  \/ DocxOnLoad \/ DocxOnError
  \/ ContentRead \/ StepDone \/ ExtractionDone \/ Deliver

(***************************************************************************)
(* The extractor called by itself                                          *)
(***************************************************************************)
\* A reply that is null or undefined has no properties to read.
TypeError == [thrown |-> "TypeError"]

\* What JSON.parse gave: an object with its properties, or null.
ObjectReply(props) == [kind |-> "object", props |-> props]

NullReply == [kind |-> "null", props |-> <<>>]

ExtractFallback ==
  /\ reply = NoRecord
  /\ extractedFields = NoRecord
  /\ extractedFields' = extractFallback(fileContent)
  /\ UNCHANGED <<fileContent, calls, reply, confidenceScores, resumePc, stepIndex,
                 flagVars, delivered, aiVars, templateVars, parserVars, wizardVars>>

ValidateReply ==
  /\ reply # NoRecord
  /\ extractedFields = NoRecord
  /\ extractedFields' = IF reply.kind = "null" THEN TypeError
                        ELSE validateExtractedFields(reply.props)
  /\ UNCHANGED <<fileContent, calls, reply, confidenceScores, resumePc, stepIndex,
                 flagVars, delivered, aiVars, templateVars, parserVars, wizardVars>>

\* The caller is done with the record.
DiscardRecord ==
  /\ extractedFields # NoRecord
  /\ extractedFields' = NoRecord
  /\ UNCHANGED <<fileContent, calls, reply, confidenceScores, resumePc, stepIndex,
                 flagVars, delivered, aiVars, templateVars, parserVars, wizardVars>>

ExtractorNext == ExtractFallback \/ ValidateReply \/ DiscardRecord

V_Jane == <<"J","a","n","e">>

D_short == <<"1","/","2">>

\* The four bare-key spellings of a field: the first four entries of its row.
BareSpellings(key) ==
  { DoubleBrace(key), SingleBrace(key), Square(toUpperCase(key)),
    Angle(toUpperCase(key)) }

\* Whether any of the spellings occurs in the text, case ignored.
MentionsAny(text, spellings) ==
  \E p \in spellings : Mentions(text, toLowerCase(p))

(***************************************************************************)
(* Substitution of a field that has a value                                *)
(***************************************************************************)
\* Templates that spell the name field in the four bare-key conventions.
SubstitutePalette ==
  { DoubleBrace(Chars("name")), SingleBrace(<<"N","a","m","e">>), Square(toUpperCase(Chars("name"))),
    Angle(Chars("name")), <<"[">>, <<"]">>, <<" ">>, <<"x">> }

SubstituteInit ==
  TemplateInit(TextsOf(SubstitutePalette, MaxPieces),
               { RecordWith([name |-> V_Jane]) }, {D_short})

SpecSubstitute == SubstituteInit /\ [][TemplateNext]_vars

\* C1: for every field of the placeholder table whose value is non-empty, a
\* template in which a bare-key spelling of the field occurs (in any letter
\* case) yields an output that contains the value and none of the field's
\* bare-key spellings.
C1_ValueReplacesBareSpelling ==
  processedContent # NoOutput =>
    \A r \in 1..Len(FIELD_MAPPINGS) :
      LET key == FIELD_MAPPINGS[r].key
          spellings == { FIELD_MAPPINGS[r].placeholders[k] : k \in 1..4 }
      IN  (HasValue(Get(fields, key)) /\ MentionsAny(templateContent, spellings))
            => /\ includes(processedContent, Get(fields, key))
               /\ ~MentionsAny(processedContent, spellings)

\* The name placeholder stood between square brackets and the output is empty.
C1_ValueLostInBrackets ==
  /\ templateContent = <<"[">> \o DoubleBrace(Chars("name")) \o <<"]">>
  /\ fields.name = V_Jane
  /\ processedContent = <<>>

(***************************************************************************)
(* Removal of a field that has no value                                    *)
(***************************************************************************)
L_Phone == <<"P",":">>

LabelledSlot == L_Phone \o <<" ">> \o DoubleBrace(Chars("phone"))

\* Templates in which the label "P:" stands only in front of the phone
\* placeholder.
RemovePalette ==
  { LabelledSlot, DoubleBrace(Chars("phone")),
    <<"\n">>, <<" ">>, <<"x">> }

RemoveInit ==
  TemplateInit(TextsOf(RemovePalette, MaxPieces),
               { RecordWith([phone |-> v]) : v \in {<<>>, <<" ">>} }, {D_short})

SpecRemove == RemoveInit /\ [][TemplateNext]_vars

\* Every line of the template that holds the label is the labelled slot and
\* nothing else.
LabelOnlyLines(template) ==
  LET lines == split(template, "\n")
  IN  \A n \in 1..Len(lines) :
        includes(lines[n], L_Phone) => trim(lines[n]) = LabelledSlot

\* C2: when the phone value is empty or blank and the label "P:" stands only
\* on lines of its own with the phone placeholder, the output holds no fragment
\* of the placeholder and no label "P:" left over from the slot, whatever
\* lines precede or follow.
C2_EmptySlotLeavesNothing ==
  (/\ processedContent # NoOutput
   /\ ~HasValue(Get(fields, "phone"))
   /\ LabelOnlyLines(templateContent))
    => /\ ~includes(processedContent, L_Phone)
       /\ ~includes(processedContent, <<"{">>)
       /\ ~includes(processedContent, <<"}">>)
       /\ ~includes(processedContent, Chars("phone"))

\* The labelled slot was followed by another line and its label survived.
C2_LabelJoinsNextLine ==
  /\ templateContent = LabelledSlot \o <<"\n", "x">>
  /\ fields.phone = <<>>
  /\ processedContent = L_Phone \o <<"x">>

(***************************************************************************)
(* The cleanup pass                                                        *)
(***************************************************************************)
\* Tokens of three conventions in two pieces each, the opening bracket with
\* the text and the closing bracket, an empty HTML paragraph and a space.
CleanupPalette ==
  { Chars("<<x"), Chars(">>"), Chars("{x"), Chars("}"), Chars("[x"), Chars("]"),
    Chars("<p></p>"), Chars(" ") }

CleanupInit ==
  TemplateInit(TextsOf(CleanupPalette, MaxPieces),
               { RecordWith([name |-> V_Jane]) }, {D_short})

SpecCleanup == CleanupInit /\ [][TemplateNext]_vars

\* C3: the output holds no token {{x}}, {x}, [x] or <<x>> with non-empty x,
\* whichever cleanup step could have brought it into being.
C3_NoPlaceholderShapedToken ==
  processedContent # NoOutput =>
    /\ ~test(DoubleBraceToken, processedContent)
    /\ ~test(SingleBraceToken, processedContent)
    /\ ~test(SquareToken, processedContent)
    /\ ~test(AngleToken, processedContent)

\* The removal of an empty paragraph left a token in angle brackets.
C3_TokenLeftByParagraphRemoval ==
  /\ templateContent = Chars("<<x<p></p>>>")
  /\ processedContent = Chars("<<x>>")

(***************************************************************************)
(* Alias spellings                                                         *)
(***************************************************************************)
\* Templates that spell the name field by its alias, in both brace forms.
AliasPalette ==
  { DoubleBrace(Chars("FULL_NAME")), SingleBrace(Chars("FULL_NAME")), <<"x">>, <<" ">>,
    <<"\n">> }

AliasInit ==
  TemplateInit(TextsOf(AliasPalette, MaxPieces),
               { RecordWith([name |-> v]) : v \in {V_Jane, <<>>} }, {D_short})

SpecAlias == AliasInit /\ [][TemplateNext]_vars

\* The alias spellings of a row: what follows its four bare-key spellings.
AliasSpellings(r) ==
  { FIELD_MAPPINGS[r].placeholders[k] : k \in 5..Len(FIELD_MAPPINGS[r].placeholders) }

\* C4: for every field of the table, a template in which an alias spelling of
\* the field occurs (the only braces of the template being those of the
\* alias) yields an output that contains the value when the value is
\* non-empty, and no brace character when the value is empty.
C4_AliasBehavesLikeBareKey ==
  processedContent # NoOutput =>
    \A r \in 1..Len(FIELD_MAPPINGS) :
      MentionsAny(templateContent, AliasSpellings(r)) =>
        IF HasValue(Get(fields, FIELD_MAPPINGS[r].key))
          THEN includes(processedContent, Get(fields, FIELD_MAPPINGS[r].key))
          ELSE /\ ~includes(processedContent, <<"{">>)
               /\ ~includes(processedContent, <<"}">>)

\* The double-brace alias of a name that has a value left nothing.
C4_DoubleBraceAliasLosesValue ==
  /\ templateContent = DoubleBrace(Chars("FULL_NAME"))
  /\ fields.name = V_Jane
  /\ processedContent = <<>>

(***************************************************************************)
(* The keys of the record and the rows of the table                        *)
(***************************************************************************)
\* The value the record of this specification gives a key: the key in upper
\* case.
ValueOf(key) == toUpperCase(key)

KeyWords ==
  [name |-> Chars("name"), email |-> Chars("email"), phone |-> Chars("phone"),
   location |-> Chars("location"), website |-> Chars("website"), linkedin |-> Chars("linkedin"),
   summary |-> Chars("summary"), experience |-> Chars("experience"),
   education |-> Chars("education"), skills |-> Chars("skills"), projects |-> Chars("projects"),
   certifications |-> Chars("certifications"), languages |-> Chars("languages"),
   achievements |-> Chars("achievements")]

\* Templates that spell each of the fourteen record keys in double braces.
KeysPalette == { DoubleBrace(KeyWords[k]) : k \in RecordKeys } \cup { <<" ">> }

KeysInit ==
  TemplateInit(TextsOf(KeysPalette, MaxPieces),
               { [k \in RecordKeys |-> ValueOf(KeyWords[k])] }, {D_short})

SpecKeys == KeysInit /\ [][TemplateNext]_vars

\* C5: for each of the fourteen record keys, a template that holds {{key}}
\* and a record with a value for the key yield an output that holds the value.
C5_EveryRecordKeyIsReplaced ==
  processedContent # NoOutput =>
    \A k \in RecordKeys :
      (includes(templateContent, DoubleBrace(KeyWords[k])) /\ HasValue(Get(fields, k)))
        => includes(processedContent, Get(fields, k))

\* The website placeholder was stripped although the record has a website.
C5_WebsiteStripped ==
  /\ templateContent = DoubleBrace(Chars("website"))
  /\ HasValue(fields.website)
  /\ processedContent = <<>>

(***************************************************************************)
(* Decoding of uploaded files                                              *)
(***************************************************************************)
V_Doe == <<"D","o","e">>

Stem == <<"c","v">>

\* Names with supported and unsupported extensions in either letter case,
\* with several dots, with a trailing dot and with no dot at all.
FileNames ==
  { Stem \o <<".">> \o e :
      e \in { E_txt, toUpperCase(E_txt), E_pdf, <<"P","d","f">>, E_docx,
              toUpperCase(E_docx), E_doc, <<"r","t","f">>, <<"R","T","F">>,
              <<"o","d","t">>, E_pdf \o <<".">> \o <<"r","t","f">>,
              <<"r","t","f">> \o <<".">> \o E_pdf, <<>> } }
  \cup { Stem, E_txt, <<>> }

\* What reading a text file or a Word document gives.
FileTexts == { <<>>, <<" ", "\n">>, V_Jane }

\* The pages of a PDF document, each the list of its text items.
PdfDocuments ==
  { <<>>, << <<>> >>, << << <<" ">> >> >>, << <<V_Jane, V_Doe>> >>,
    << <<V_Jane>>, <<>> >> }

\* Why the decoding library throws.
Causes == { "Invalid PDF structure", "Password required" }

Files ==
  [name : FileNames, reads : BOOLEAN, cause : Causes \cup {NoCause},
   text : FileTexts, pages : PdfDocuments]

ParseInit == TemplateIdle /\ ParserInit(Files) /\ ResumeInit

SpecParse == ParseInit /\ [][ParserNext]_vars

SupportedExtensions == { E_txt, E_pdf, E_docx, E_doc }

\* C6: parseFile never resolves with an empty or whitespace-only text.
C6_NeverResolvesBlank ==
  parseOutcome.kind = "resolved" => Truthy(trim(parseOutcome.value))

\* A blank text file was resolved as it is.
C6_BlankTextResolved ==
  /\ fileExtension(file.name) = E_txt
  /\ parseOutcome = Resolved(<<" ", "\n">>)

\* The text of the name after its last dot (the whole name when it has no
\* dot), in lower case.
LowercaseExtension(name) ==
  LET dots == { i \in 1..Len(name) : name[i] = "." }
      last == IF dots = {} THEN 0 ELSE CHOOSE i \in dots : \A j \in dots : j <= i
  IN  [i \in 1..(Len(name) - last) |-> ToLowerChar(name[last + i])]

\* C7: once parseFile has been called on a file whose lowercase extension is
\* none of txt, pdf, docx, doc, it has called no decoder and has failed with
\* an error that says the type is unsupported and names the extension; on a
\* file with one of the four, it has called the decoder of that extension and
\* no other, whatever the letter case of the name and the content of the file.
C7_DispatchByLowercaseExtension ==
  parsePc # "idle" =>
    LET ext == LowercaseExtension(file.name)
    IN  IF ext \notin SupportedExtensions
          THEN /\ decoderCalls = {}
               /\ parsePc = "done"
               /\ parseOutcome.kind = "rejected"
               /\ includes(parseOutcome.value, UnsupportedMessage(ext))
          ELSE decoderCalls =
                 { CASE ext = E_txt -> "parseTxtFile"
                     [] ext = E_pdf -> "parsePdfFile"
                     [] OTHER -> "parseDocxFile" }

\* parseFile has refused a file named in upper case with an unsupported
\* extension.
C7_UnsupportedRefused ==
  /\ file.name = Stem \o <<".", "R", "T", "F">>
  /\ parsePc = "done"
  /\ parseOutcome.kind = "rejected"

\* The decoding library threw on the file that parseFile has settled.
DecoderThrew ==
  /\ parsePc = "done"
  /\ file.reads
  /\ file.cause # NoCause
  /\ decoderCalls \cap {"parsePdfFile", "parseDocxFile"} # {}

\* C8: when the decoding library throws, the error of parseFile holds the
\* extension and the cause, and differs from the error for an empty document
\* and from the error for an unsupported type.
C8_DecodeFailureCarriesCause ==
  DecoderThrew =>
    LET ext == fileExtension(file.name)
        blank == [file EXCEPT !.cause = NoCause, !.text = <<>>, !.pages = <<>>]
        emptyDocument ==
          IF DecoderFor(ext) = "parsePdfFile" THEN Settle(ext, parsePdfFile(blank))
          ELSE Settle(ext, parseDocxFile(blank))
    IN  /\ parseOutcome.kind = "rejected"
        /\ includes(parseOutcome.value, toUpperCase(ext))
        /\ includes(parseOutcome.value, <<file.cause>>)
        /\ parseOutcome # emptyDocument
        /\ parseOutcome # Settle(ext, Rejected(UnsupportedMessage(ext)))

\* An encrypted PDF was refused with the error of an empty document.
C8_CauseDropped ==
  /\ DecoderThrew
  /\ file.cause = "Password required"
  /\ parseOutcome = Rejected(WrapError(E_pdf, PdfExtractError))

(***************************************************************************)
(* The records of the extractor                                            *)
(***************************************************************************)
\* The longest text handed to the extractor by itself, in lines.
MaxLines == 2

\* The texts of at most n lines of the palette.
LinesOf(palette, n) ==
  UNION { { join(t, <<"\n">>) : t \in [1..k -> palette] } : k \in 0..n }

ExtractPalette ==
  { Chars("John Smith"), Chars("jo@x.io"), Chars("(415) 555-0199"),
    Chars("Paris, France"), Chars("Skills:"), Chars("Go and SQL"),
    Chars("www.site.org"), <<>> }

Seven == << "number 7" >>

AnObject == << "object" >>

\* The values a property of the reply can have.
JsValues ==
  { Undefined, Null, Zero, Seven, AnObject, <<>>, <<" ">>, <<" ">> \o V_Jane }

\* Replies with a property of the schema, with one that is not of the schema,
\* with none, and the reply null.
Replies ==
  { ObjectReply([name |-> v, nickname |-> w]) : v \in JsValues, w \in {Seven, V_Jane} }
  \cup { ObjectReply([skills |-> v]) : v \in JsValues }
  \cup { ObjectReply(<<>>), NullReply }

ExtractInit ==
  /\ TemplateIdle
  /\ ParserInit({NoFile})
  /\ resumePc = "ready"
  /\ stepIndex = 0
  /\ isProcessing = FALSE
  /\ hasStarted = FALSE
  /\ isComplete = FALSE
  /\ progress = 0
  /\ currentStep = ""
  /\ error = Null
  /\ \/ fileContent \in LinesOf(ExtractPalette, MaxLines) /\ reply = NoRecord
     \/ fileContent = <<>> /\ reply \in Replies
  /\ extractedFields = NoRecord
  /\ confidenceScores = NoRecord
  /\ calls = <<>>
  /\ delivered = <<>>
  /\ AIInit
  /\ WizardAtParser

SpecExtract == ExtractInit /\ [][ExtractorNext]_vars

\* C9: a record the extractor has produced has the fourteen keys of the
\* schema and a string for each of them.
C9_EveryFieldIsAString ==
  (extractedFields # NoRecord /\ extractedFields # TypeError) =>
    /\ DOMAIN extractedFields = RecordKeys
    /\ \A key \in RecordKeys : IsString(extractedFields[key])

\* A reply whose name is a number has been validated into a record whose
\* name is the empty string.
C9_NumberBecameEmpty ==
  /\ reply # NoRecord
  /\ reply.kind = "object"
  /\ Get(reply.props, "name") = Seven
  /\ extractedFields # NoRecord
  /\ extractedFields.name = <<>>

(***************************************************************************)
(* The confidence map of a processed upload                                *)
(***************************************************************************)
\* A line that makes a text long enough for processResume.
Filler == Chars("Built services at Acme Inc. for seven years in a row.")

ResumePalette ==
  { Chars("John Smith"), Chars("jo@x.io"), Chars("Skills:"), Chars("Go and SQL"),
    Chars("Languages"), Chars("French") }

ResumeTexts ==
  { Filler \o <<"\n">> \o t : t \in LinesOf(ResumePalette, MaxLines) }
  \cup { <<>>, Chars("John Smith") }

\* Uploads of every decoder and of none, readable or not, well-formed or not;
\* a PDF has one page with its text as one item.
ResumeFiles ==
  { [name |-> Stem \o <<".">> \o e, reads |-> r, cause |-> c, text |-> t,
     pages |-> << <<t>> >>] :
      e \in { E_txt, E_pdf, E_docx, <<"r","t","f">> }, r \in BOOLEAN,
      c \in { NoCause, "Invalid PDF structure" }, t \in ResumeTexts }

ResumeSpecInit == TemplateIdle /\ ParserInit(ResumeFiles) /\ ResumeInit

SpecResume == ResumeSpecInit /\ [][ResumeNext]_vars

\* C10: in every delivery, each field of the record that is the empty string
\* has confidence 0 in the map delivered with it.
C10_EmptyFieldHasConfidenceZero ==
  \A n \in 1..Len(delivered) :
    \A key \in DOMAIN delivered[n][1] :
      delivered[n][1][key] = <<>> =>
        (key \in DOMAIN delivered[n][2] /\ delivered[n][2][key] = 0)

\* A record without a website was delivered with a map that has no entry for
\* the website.
C10_NoEntryForWebsite ==
  /\ Len(delivered) = 1
  /\ delivered[1][1].website = <<>>
  /\ "website" \notin DOMAIN delivered[1][2]

(***************************************************************************)
(* ResumeParser with the choice of the remote service                      *)
(***************************************************************************)
\* processingSteps while useAI holds.
processingStepsAI ==
  << "Reading file content...", "Connecting to AI service...",
     "AI analyzing resume structure...", "AI extracting personal information...",
     "AI processing work experience...", "AI identifying skills and education...",
     "Finalizing AI extraction..." >>

\* The processingSteps of the render whose processResume is running.
processingStepsOf(withAI) == IF withAI THEN processingStepsAI ELSE processingSteps

\* One entry of the confidence map, in hundredths.
ConfidenceOf(value, withAI, high, low) ==
  IF JsTruthy(value) THEN (IF withAI THEN high ELSE low) ELSE 0

\* The confidence map of the processResume that knows useAI.
confidenceScoresWith(record, withAI) ==
  [name |-> ConfidenceOf(Get(record, "name"), withAI, 95, 85),
   email |-> ConfidenceOf(Get(record, "email"), withAI, 98, 90),
   phone |-> ConfidenceOf(Get(record, "phone"), withAI, 90, 80),
   location |-> ConfidenceOf(Get(record, "location"), withAI, 85, 75),
   summary |-> ConfidenceOf(Get(record, "summary"), withAI, 90, 70),
   experience |-> ConfidenceOf(Get(record, "experience"), withAI, 95, 80),
   education |-> ConfidenceOf(Get(record, "education"), withAI, 90, 80),
   skills |-> ConfidenceOf(Get(record, "skills"), withAI, 95, 85),
   projects |-> ConfidenceOf(Get(record, "projects"), withAI, 85, 70),
   achievements |-> ConfidenceOf(Get(record, "achievements"), withAI, 80, 60)]

\* `Failed to extract resume information: ${error.message}`
ExtractError(message) == <<"Failed to extract resume information: ">> \o message

\* AIResumeExtractor.extractFallback of the declaration that is bundled.
ExtractFallbackOf(class, content) ==
  CASE class = "first" -> extractFallback_1(content)
    [] class = "second" -> extractFallback_2(content)
    [] OTHER -> extractFallback(content)

\* AIResumeExtractor.extractWithAI of the declaration that is bundled; the
\* pattern-based class returns its extractFallback.
ExtractWithAIOf(class, content, key, answer, documents) ==
  CASE class = "first" -> extractWithAI_1(content, key, answer, documents)
    [] class = "second" -> extractWithAI_2(content, key, answer, documents)
    [] OTHER -> extractFallback(content)

\* The card "AI-Powered" and the card "Basic".
SelectAI ==
  /\ ~hasStarted /\ ~isComplete /\ ~showApiKeyInput /\ error = Null
  /\ useAI' = TRUE
  /\ UNCHANGED <<apiKey, showApiKeyInput, runUseAI, extractorClass, resumePc, stepIndex,
                 flagVars, extractVars, delivered, templateVars, parserVars,
                 wizardVars>>

SelectBasic ==
  /\ ~hasStarted /\ ~isComplete /\ ~showApiKeyInput /\ error = Null
  /\ useAI' = FALSE
  /\ UNCHANGED <<apiKey, showApiKeyInput, runUseAI, extractorClass, resumePc, stepIndex,
                 flagVars, extractVars, delivered, templateVars, parserVars,
                 wizardVars>>

\* The input of the key.
SetApiKey(value) ==
  /\ ~hasStarted /\ ~isComplete /\ showApiKeyInput /\ error = Null
  /\ apiKey' = value
  /\ UNCHANGED <<useAI, showApiKeyInput, runUseAI, extractorClass, resumePc, stepIndex,
                 flagVars, extractVars, delivered, templateVars, parserVars,
                 wizardVars>>

\* processResume up to its first await, called from a render in which useAI
\* was withAI.
CallProcessResume(withAI) ==
  /\ isProcessing' = TRUE
  /\ hasStarted' = TRUE
  /\ currentStep' = "Reading file content..."
  /\ CallParseFile
  /\ resumePc' = "reading"
  /\ runUseAI' = withAI
  /\ UNCHANGED <<stepIndex, isComplete, progress, error, extractVars, delivered,
                 apiKey, extractorClass, templateVars, wizardVars>>

\* handleStartProcessing of a render in which useAI was withAI, after the
\* caller has set useAI to nextUseAI and showApiKeyInput to nextShow.
handleStartProcessing(withAI, nextUseAI, nextShow) ==
  IF withAI /\ ~Truthy(trim(apiKey))
    THEN /\ showApiKeyInput' = TRUE
         /\ useAI' = nextUseAI
         /\ UNCHANGED <<apiKey, runUseAI, extractorClass, resumePc, stepIndex, flagVars,
                        extractVars, delivered, templateVars, parserVars, wizardVars>>
    ELSE /\ CallProcessResume(withAI)
         /\ useAI' = nextUseAI
         /\ showApiKeyInput' = nextShow

\* The button "Configure AI Settings" or "Start Processing".
ConfigureOrStart ==
  /\ resumePc = "ready"
  /\ ~hasStarted /\ ~isComplete /\ ~showApiKeyInput /\ error = Null
  /\ IF useAI
       THEN /\ showApiKeyInput' = TRUE
            /\ UNCHANGED <<useAI, apiKey, runUseAI, extractorClass, resumePc, stepIndex,
                           flagVars, extractVars, delivered, templateVars, parserVars,
                           wizardVars>>
       ELSE handleStartProcessing(useAI, useAI, showApiKeyInput)

\* The button "Start AI Processing", disabled while the key is blank.
StartAIProcessing ==
  /\ resumePc = "ready"
  /\ ~hasStarted /\ ~isComplete /\ showApiKeyInput /\ error = Null
  /\ Truthy(trim(apiKey))
  /\ handleStartProcessing(useAI, useAI, showApiKeyInput)

\* The button "Use Basic Instead": the two setters, then the
\* handleStartProcessing of the render that is on the screen.
UseBasicInstead ==
  /\ resumePc = "ready"
  /\ ~hasStarted /\ ~isComplete /\ showApiKeyInput /\ error = Null
  /\ handleStartProcessing(useAI, FALSE, FALSE)

\* extractResumeFields has thrown, or has its record.
Extracted(outcome) ==
  IF IsThrown(outcome)
    THEN /\ error' = ProcessError(ExtractError(outcome.thrown))
         /\ isProcessing' = FALSE
         /\ resumePc' = "failed"
         /\ UNCHANGED extractedFields
    ELSE /\ extractedFields' = outcome
         /\ resumePc' = "extracting"
         /\ UNCHANGED <<error, isProcessing>>

\* The timer of a step has run out: the next step is shown, or, after the
\* last one, extractResumeFields sends the request to the service or runs
\* the pattern-based extraction.
StepDoneWith ==
  /\ resumePc = "steps"
  /\ progress' = (stepIndex + 1) * 100
  /\ stepIndex' = stepIndex + 1
  /\ IF stepIndex + 1 < Len(processingStepsOf(runUseAI))
       THEN /\ currentStep' = processingStepsOf(runUseAI)[stepIndex + 2]
            /\ UNCHANGED <<resumePc, extractedFields, error, isProcessing>>
       ELSE /\ UNCHANGED currentStep
            /\ IF runUseAI /\ Truthy(trim(apiKey))
                 THEN /\ resumePc' = "calling"
                      /\ UNCHANGED <<extractedFields, error, isProcessing>>
                 ELSE Extracted(ExtractFallbackOf(extractorClass, fileContent))
  /\ UNCHANGED <<hasStarted, isComplete, fileContent, calls, reply, confidenceScores,
                 delivered, aiVars, templateVars, parserVars, wizardVars>>

\* The service has answered, or the request has failed: extractWithAI
\* settles, and extractResumeFields with it.
RemoteSettled(answer, documents) ==
  /\ resumePc = "calling"
  /\ reply' = answer
  /\ Extracted(ExtractWithAIOf(extractorClass, fileContent, trim(apiKey), answer,
                               documents))
  /\ UNCHANGED <<stepIndex, hasStarted, isComplete, progress, currentStep,
                 fileContent, calls, confidenceScores, delivered, aiVars, templateVars,
                 parserVars, wizardVars>>

\* extractResumeFields has returned: the confidence map, the completion and
\* the timer of the delivery.
ExtractionDoneWith ==
  /\ resumePc = "extracting"
  /\ confidenceScores' = confidenceScoresWith(extractedFields, runUseAI)
  /\ isComplete' = TRUE
  /\ currentStep' = "Processing complete!"
  /\ resumePc' = "delivering"
  /\ UNCHANGED <<stepIndex, isProcessing, hasStarted, progress, error, fileContent, calls,
                 reply, extractedFields, delivered, aiVars, templateVars, parserVars,
                 wizardVars>>

(***************************************************************************)
(* Failures of the remote service                                          *)
(***************************************************************************)
V_Key == Chars("pk-1")

\* What the input of the key can hold.
ApiKeys == { <<>>, <<" ">>, V_Key, <<" ">> \o V_Key }

\* The JSON documents the service answers with, by the character that holds
\* each: a full reply, a reply with a number for the name and a property
\* that is not of the record, and the empty object.
Documents ==
  [docJane |-> [name |-> Chars(" Jane Roe "), email |-> Chars("jane@x.io"),
                skills |-> Chars("Go, SQL, Rust")],
   docOdd |-> [name |-> Seven, nickname |-> V_Jane],
   docEmpty |-> <<>>]

\* The request fails, the status is not 2xx, the body is malformed, the
\* reply is missing, is no JSON, is null, or is a document, fenced or not.
ServiceAnswers ==
  { FetchRejects(<<"Failed to fetch">>),
    NotOk(<<"401">>, <<"Unauthorized">>),
    NotOk(<<"503">>, <<>>),
    BodyNotJson(<<"Unexpected end of JSON input">>),
    BodyNull,
    Body(Undefined), Body(Null), Body(<<>>),
    Body(Chars("Sorry, no resume.")),
    Body(<<JsonNull>>),
    Body(<<"docJane">>),
    Body(<<Fence>> \o Chars("json\n") \o <<"docOdd", "\n", Fence>>),
    Body(<<" ", "docEmpty", "\n">>) }

RemoteTexts ==
  { Filler \o <<"\n">> \o line : line \in ResumePalette } \cup { Chars("John Smith") }

RemoteFiles ==
  { [name |-> Stem \o <<".">> \o e, reads |-> r, cause |-> NoCause, text |-> t,
     pages |-> << <<t>> >>] :
      e \in { E_txt, <<"r","t","f">> }, r \in BOOLEAN, t \in RemoteTexts }

RemoteInit ==
  /\ TemplateIdle
  /\ ParserInit(RemoteFiles)
  /\ resumePc = "ready"
  /\ stepIndex = 0
  /\ isProcessing = FALSE
  /\ hasStarted = FALSE
  /\ isComplete = FALSE
  /\ progress = 0
  /\ currentStep = ""
  /\ error = Null
  /\ fileContent = <<>>
  /\ reply = NoRecord
  /\ extractedFields = NoRecord
  /\ confidenceScores = NoRecord
  /\ calls = <<>>
  /\ delivered = <<>>
  /\ useAI = FALSE
  /\ apiKey = <<>>
  /\ showApiKeyInput = FALSE
  /\ runUseAI = FALSE
  /\ extractorClass \in {"first", "second"}
  /\ WizardAtParser

RemoteNext ==
  \/ SelectAI \/ SelectBasic
  \/ \E value \in ApiKeys : SetApiKey(value)
  \/ ConfigureOrStart \/ StartAIProcessing \/ UseBasicInstead
  \/ TxtOnLoad \/ TxtOnError
  \/ ContentRead \/ StepDoneWith
  \/ \E answer \in ServiceAnswers : RemoteSettled(answer, Documents)
  \/ ExtractionDoneWith \/ Deliver

SpecRemote == RemoteInit /\ [][RemoteNext]_vars

\* The call of extractWithAI has settled on an answer with which its try
\* block throws.
RemoteFailed ==
  /\ reply # NoRecord
  /\ resumePc # "calling"
  /\ IsThrown(IF extractorClass = "first" THEN TryExtractWithAI_1(reply, Documents)
              ELSE TryExtractWithAI_2(reply, Documents))

\* C11: for every failure of extractWithAI (the request fails, the status is
\* not 2xx, the body is malformed, the reply is no JSON), the call returns the
\* record of the pattern-based extractor on the same text, and the run goes
\* on to the delivery of that record and never to the error state.
C11_RemoteFailureFallsBack ==
  RemoteFailed =>
    /\ resumePc \in {"extracting", "delivering", "done"}
    /\ error = Null
    /\ extractedFields = ExtractFallbackOf(extractorClass, fileContent)

\* With the second declaration of the extractor, a request that failed has
\* put the run into the error state, and no record was made.
C11_RemoteFailureBlocksUser ==
  /\ extractorClass = "second"
  /\ reply = FetchRejects(<<"Failed to fetch">>)
  /\ resumePc = "failed"
  /\ error = ProcessError(ExtractError(<<"AI extraction failed: ", "Failed to fetch">>))
  /\ extractedFields = NoRecord
  /\ delivered = <<>>

(***************************************************************************)
(* validateExtractedFields of both declarations                            *)
(***************************************************************************)
\* The keys of the record of the declaration that is bundled.
RecordKeysOf(class) == IF class = "second" THEN RecordKeys_2 ELSE RecordKeys

\* validateExtractedFields(data) of the declaration that is bundled; the
\* first declaration has the text of the pattern-based class.
ValidateOf(class, data) ==
  IF class = "second" THEN validateExtractedFields_2(data)
  ELSE validateExtractedFields(data)

\* The call validateExtractedFields(JSON.parse(...)): reading a property of
\* null throws.
ValidateReplyOf ==
  /\ reply # NoRecord
  /\ extractedFields = NoRecord
  /\ extractedFields' = IF reply.kind = "null" THEN TypeError
                        ELSE ValidateOf(extractorClass, reply.props)
  /\ UNCHANGED <<fileContent, calls, reply, confidenceScores, resumePc, stepIndex,
                 flagVars, delivered, aiVars, templateVars, parserVars, wizardVars>>

\* Replies with keys of either record, with keys of neither, and null.
ValidateReplies ==
  Replies
  \cup { ObjectReply([references |-> v, website |-> w]) :
           v \in JsValues, w \in {Undefined, <<"w", " ">>} }

ValidateInit ==
  /\ TemplateIdle
  /\ ParserInit({NoFile})
  /\ resumePc = "ready"
  /\ stepIndex = 0
  /\ isProcessing = FALSE
  /\ hasStarted = FALSE
  /\ isComplete = FALSE
  /\ progress = 0
  /\ currentStep = ""
  /\ error = Null
  /\ fileContent = <<>>
  /\ reply \in ValidateReplies
  /\ extractedFields = NoRecord
  /\ confidenceScores = NoRecord
  /\ calls = <<>>
  /\ delivered = <<>>
  /\ useAI = FALSE
  /\ apiKey = <<>>
  /\ showApiKeyInput = FALSE
  /\ runUseAI = FALSE
  /\ extractorClass \in {"first", "second"}
  /\ WizardAtParser

ValidateNext == ValidateReplyOf \/ DiscardRecord

SpecValidate == ValidateInit /\ [][ValidateNext]_vars

\* C12: whatever JSON.parse gave for the reply, validateExtractedFields
\* gives a record with exactly the keys of the record, in which a key of the
\* reply with a string value has that value trimmed, and a key that is
\* missing from the reply or has another value is ""; no other key of the
\* reply is in the record.
C12_AnyReplyBecomesARecord ==
  (reply # NoRecord /\ extractedFields # NoRecord) =>
    /\ DOMAIN extractedFields = RecordKeysOf(extractorClass)
    /\ \A key \in RecordKeysOf(extractorClass) :
         extractedFields[key] =
           IF IsString(Get(reply.props, key)) THEN trim(Get(reply.props, key))
           ELSE <<>>

\* The reply null was handed to validateExtractedFields, which threw.
C12_NullReplyThrows ==
  /\ reply = NullReply
  /\ extractedFields = TypeError

(***************************************************************************)
(* TemplateProcessor.processCustomTemplate                                 *)
(***************************************************************************)
\* `Failed to process custom template: ${error.message}`
TemplateError(message) == <<"Failed to process custom template: ">> \o message

WordTemplateError ==
  <<"Failed to process Word template. Please ensure it contains valid placeholders.">>

TemplateReadError == <<"Failed to read template file">>

\* createHtmlDocument(processedContent, templateName), the fixed parts of the
\* page held as one character each.
createHtmlDocument(content, templateName, date) ==
  <<"<!DOCTYPE html> ... <title>Resume - Generated from ">> \o templateName
    \o <<"</title> ... <body>">> \o content
    \o <<"<div class=template-info>Generated from custom template: ">> \o templateName
    \o <<" | Processed on ">> \o date \o <<"</div></body></html>">>

\* The catch of processCustomTemplate.
SettleTemplate(outcome) ==
  IF outcome.kind = "rejected" THEN Rejected(TemplateError(outcome.value)) ELSE outcome

\* The call of processCustomTemplate up to its first await: a Word template
\* starts the reader of processDocxTemplate, another file goes to parseFile.
CallProcessCustomTemplate ==
  /\ templatePc = "idle"
  /\ IF fileExtension(file.name) \in {E_docx, E_doc}
       THEN /\ templatePc' = "processDocxTemplate"
            /\ UNCHANGED parserVars
       ELSE /\ templatePc' = "parseFile"
            /\ CallParseFile
  /\ UNCHANGED <<templateContent, fields, currentDate, processedContent, templateResult,
                 resumeVars>>

\* reader.onload of processDocxTemplate: the conversion throws, or gives no
\* content, or gives the HTML in which the placeholders are replaced.
TemplateOnLoad ==
  /\ templatePc = "processDocxTemplate"
  /\ file.reads
  /\ templatePc' = "done"
  /\ IF file.cause # NoCause
       THEN /\ templateResult' = SettleTemplate(Rejected(WordTemplateError))
            /\ UNCHANGED <<templateContent, processedContent>>
       ELSE /\ templateContent' = file.text
            /\ IF ~Truthy(trim(file.text))
                 THEN /\ templateResult' = SettleTemplate(Rejected(WordTemplateError))
                      /\ UNCHANGED processedContent
                 ELSE /\ processedContent' =
                           replacePlaceholders(file.text, fields, currentDate)
                      /\ templateResult' =
                           Resolved(createHtmlDocument(processedContent', file.name,
                                                       currentDate))
  /\ UNCHANGED <<fields, currentDate, parserVars, resumeVars>>

\* reader.onerror of processDocxTemplate.
TemplateOnError ==
  /\ templatePc = "processDocxTemplate"
  /\ ~file.reads
  /\ templatePc' = "done"
  /\ templateResult' = SettleTemplate(Rejected(TemplateReadError))
  /\ UNCHANGED <<templateContent, fields, currentDate, processedContent, parserVars,
                 resumeVars>>

\* parseFile has settled: its error is rethrown, its text goes through
\* replacePlaceholders and is returned.
TemplateParsed ==
  /\ templatePc = "parseFile"
  /\ parsePc = "done"
  /\ templatePc' = "done"
  /\ IF parseOutcome.kind = "rejected"
       THEN /\ templateResult' = SettleTemplate(parseOutcome)
            /\ UNCHANGED <<templateContent, processedContent>>
       ELSE /\ templateContent' = parseOutcome.value
            /\ processedContent' =
                 replacePlaceholders(parseOutcome.value, fields, currentDate)
            /\ templateResult' = Resolved(processedContent')
  /\ UNCHANGED <<fields, currentDate, parserVars, resumeVars>>

\* Word templates, a text template and a file of no supported type.
TemplateFileNames ==
  { Stem \o <<".">> \o e : e \in { E_docx, toUpperCase(E_doc), E_txt, <<"r","t","f">> } }

\* What decoding a template gives: nothing, white space, and texts with a
\* placeholder.
TemplateTexts ==
  { <<>>, <<" ", "\n">>, Chars("Dear {{name}}"), Chars("<p>{name}</p>") }

TemplateFiles ==
  [name : TemplateFileNames, reads : BOOLEAN,
   cause : { NoCause, "Invalid PDF structure" }, text : TemplateTexts, pages : {<<>>}]

CustomTemplateInit ==
  /\ templateContent = <<>>
  /\ fields \in { RecordWith(<<>>), RecordWith([name |-> V_Jane]) }
  /\ currentDate = D_short
  /\ processedContent = NoOutput
  /\ templatePc = "idle"
  /\ templateResult = Pending
  /\ ParserInit(TemplateFiles)
  /\ ResumeInit

CustomTemplateNext ==
  \/ CallProcessCustomTemplate
  \/ TemplateOnLoad \/ TemplateOnError
  \/ TxtOnLoad \/ TxtOnError
  \/ TemplateParsed

SpecCustomTemplate == CustomTemplateInit /\ [][CustomTemplateNext]_vars

\* The template is of an accepted format and was decoded to a blank text.
DecodedBlank ==
  /\ templatePc = "done"
  /\ file.reads
  /\ ~Truthy(trim(file.text))
  /\ \/ fileExtension(file.name) \in {E_docx, E_doc} /\ file.cause = NoCause
     \/ fileExtension(file.name) = E_txt

\* C13: processCustomTemplate fails whenever the decoded text of the
\* template is blank, for Word templates and for the text template that goes
\* through parseFile; it never returns a document for a blank template.
C13_BlankTemplateFails ==
  DecodedBlank => templateResult.kind = "rejected"

\* A text template of white space was processed into the empty document.
C13_BlankTextTemplateResolved ==
  /\ file.name = Stem \o <<".">> \o E_txt
  /\ file.text = <<" ", "\n">>
  /\ templatePc = "done"
  /\ templateResult = Resolved(<<>>)

(***************************************************************************)
(* The Index page: upload, processing, template, edit                      *)
(***************************************************************************)
\* The ResumeParser is put on the page: its state is that of useState, and
\* no parseFile call of it is under way.
MountResumeParserAs(pc) ==
  /\ resumePc' = pc
  /\ stepIndex' = 0
  /\ hasStarted' = FALSE
  /\ isComplete' = FALSE
  /\ progress' = 0
  /\ currentStep' = ""
  /\ error' = Null
  /\ fileContent' = <<>>
  /\ reply' = NoRecord
  /\ extractedFields' = NoRecord
  /\ confidenceScores' = NoRecord
  /\ UNCHANGED calls
  /\ parsePc' = "idle"
  /\ decoderCalls' = {}
  /\ parseOutcome' = Pending

MountResumeParser == MountResumeParserAs("ready")

\* The ResumeParser is taken off the page, and its state with it.
UnmountResumeParser == MountResumeParserAs("unmounted")

\* handleFileUpload(file), called by FileUpload with a file it accepts; the
\* deliveries are counted for each upload.
handleFileUpload(upload) ==
  /\ wizardStep = 1
  /\ file' = upload
  /\ wizardStep' = 2
  /\ MountResumeParser
  /\ RemountPanels
  /\ delivered' = <<>>
  /\ UNCHANGED <<isProcessing, wizardFields, extractedConfidence, selectedTemplate,
                 aiVars, templateVars>>

\* The button "Back to Previous Step" if it were enabled while isProcessing.
BackWhileProcessing ==
  /\ wizardStep > 1
  /\ wizardStep' = IF wizardStep - 1 > 1 THEN wizardStep - 1 ELSE 1
  /\ IF wizardStep' = 2 /\ file # NoFile
       THEN MountResumeParser
       ELSE IF wizardStep = 2 THEN UnmountResumeParser
       ELSE UNCHANGED <<resumePc, stepIndex, hasStarted, isComplete, progress,
                        currentStep, error, extractVars, parsePc, decoderCalls,
                        parseOutcome>>
  /\ RemountPanels
  /\ UNCHANGED <<file, isProcessing, delivered, wizardFields, extractedConfidence,
                 selectedTemplate, aiVars, templateVars>>

\* The button "Back to Previous Step", disabled while isProcessing: back at
\* the second step the ResumeParser is mounted again for the uploaded file,
\* and it is unmounted when the second step is left.
Back ==
  /\ wizardStep > 1
  /\ ~isProcessing
  /\ wizardStep' = IF wizardStep - 1 > 1 THEN wizardStep - 1 ELSE 1
  /\ IF wizardStep' = 2 /\ file # NoFile
       THEN MountResumeParser
       ELSE IF wizardStep = 2 THEN UnmountResumeParser
       ELSE UNCHANGED <<resumePc, stepIndex, hasStarted, isComplete, progress,
                        currentStep, error, extractVars, parsePc, decoderCalls,
                        parseOutcome>>
  /\ RemountPanels
  /\ UNCHANGED <<file, isProcessing, delivered, wizardFields, extractedConfidence,
                 selectedTemplate, aiVars, templateVars>>

\* handleTemplateSelected(templateId), called by the TemplateSelector with
\* the template that is selected.
handleTemplateSelected(templateId) ==
  /\ wizardStep = 3
  /\ selectedTemplate' = templateId
  /\ wizardStep' = 4
  /\ RemountPanels
  /\ UNCHANGED <<wizardFields, extractedConfidence, templateVars, parserVars, resumePc,
                 stepIndex, flagVars, extractVars, delivered, aiVars>>

\* onFieldsChange of the form of the fourth step, which is setExtractedFields:
\* the user has typed value into the field key.
handleFieldsUpdated(key, value) ==
  /\ wizardStep = 4
  /\ wizardFields # NoRecord
  /\ wizardFields' = [wizardFields EXCEPT ![key] = value]
  /\ UNCHANGED <<wizardStep, extractedConfidence, selectedTemplate, templateVars,
                 parserVars, resumePc, stepIndex, flagVars, extractVars, delivered,
                 aiVars, selectorVars, exportVars>>

\* A text whose record has fields of each confidence: a name, a short list
\* of skills and a short summary.
RatedText ==
  join(<< Filler, Chars("John Smith"), Chars("Skills:"), Chars("go and sql"),
          Chars("Summary"), Chars("keen on work") >>, <<"\n">>)

\* The uploads FileUpload accepts: text files and PDF documents, readable or
\* not, well-formed or not, long enough or not.
WizardFiles ==
  { [name |-> Stem \o <<".">> \o e, reads |-> r, cause |-> c, text |-> t,
     pages |-> << <<t>> >>] :
      e \in { E_txt, E_pdf }, r \in BOOLEAN,
      c \in { NoCause, "Invalid PDF structure" },
      t \in { Filler \o <<"\n">> \o Chars("John Smith"), Chars("John Smith"),
              RatedText } }

TemplateIds == { "modern-professional", "creative-designer" }

\* handleTemplateSelect(templateId) of the TemplateSelector: a click on the
\* card of a template.
handleTemplateSelect(templateId) ==
  /\ wizardStep = 3
  /\ selectorChoice' = templateId
  /\ UNCHANGED <<customTemplates, exportVars, wizardStep, wizardFields,
                 extractedConfidence, selectedTemplate, templateVars, parserVars,
                 resumePc, stepIndex, flagVars, extractVars, delivered, aiVars>>

\* handleContinue of the TemplateSelector without its test of
\* selectedTemplate.
handleContinueWithAnything ==
  /\ wizardStep = 3
  /\ handleTemplateSelected(selectorChoice)

\* handleContinue of the TemplateSelector: onTemplateSelected, which is
\* handleTemplateSelected of the page, if a template is selected.
handleContinue ==
  /\ wizardStep = 3
  /\ IF selectorChoice # ""
       THEN handleTemplateSelected(selectorChoice)
       ELSE UNCHANGED vars

\* What the user types into the name field.
TypedNames == { V_Jane, <<>> }

WizardInit ==
  /\ TemplateIdle
  /\ ParserInit({NoFile})
  /\ AIInit
  /\ wizardStep = 1
  /\ wizardFields = NoRecord
  /\ extractedConfidence = NoRecord
  /\ selectedTemplate = ""
  /\ SelectorIdle
  /\ ExportIdle
  /\ localStorage = <<>>
  /\ resumePc = "unmounted"
  /\ stepIndex = 0
  /\ isProcessing = FALSE
  /\ hasStarted = FALSE
  /\ isComplete = FALSE
  /\ progress = 0
  /\ currentStep = ""
  /\ error = Null
  /\ fileContent = <<>>
  /\ reply = NoRecord
  /\ extractedFields = NoRecord
  /\ confidenceScores = NoRecord
  /\ calls = <<>>
  /\ delivered = <<>>

\* The button "Try Again" of the error card: window.location.reload(), after
\* which the page is as it is first loaded.
TryAgain ==
  /\ wizardStep = 2
  /\ resumePc = "failed"
  /\ UnmountResumeParser
  /\ file' = NoFile
  /\ wizardStep' = 1
  /\ wizardFields' = NoRecord
  /\ extractedConfidence' = NoRecord
  /\ selectedTemplate' = ""
  /\ isProcessing' = FALSE
  /\ delivered' = <<>>
  /\ customTemplates' = <<>>
  /\ selectorChoice' = ""
  /\ isGenerating' = FALSE
  /\ generationProgress' = 0
  /\ exportComplete' = FALSE
  /\ previewUrl' = <<>>
  /\ exportRuns' = <<>>
  /\ exportOutcomes' = <<>>
  /\ toast' = NoToast
  /\ UNCHANGED <<localStorage, downloads, aiVars, templateVars>>

WizardNext ==
  \/ \E upload \in WizardFiles : handleFileUpload(upload)
  \/ StartProcessing
  \/ TxtOnLoad \/ TxtOnError
  \/ PdfOnLoad \/ PdfOnError
  \/ ContentRead \/ StepDone \/ ExtractionDone \/ Deliver
  \/ \E templateId \in TemplateIds : handleTemplateSelect(templateId)
  \/ handleContinue
  \/ \E value \in TypedNames : handleFieldsUpdated("name", value)
  \/ Back \/ TryAgain

SpecWizard == WizardInit /\ [][WizardNext]_vars

\* parseFile has failed inside the processResume of the upload on the page.
DecodeFailed ==
  /\ resumePc = "failed"
  /\ parseOutcome.kind = "rejected"

\* C14: once parseFile has failed inside processResume, the run is in the
\* error state with the error of the decoder, no record is extracted and none
\* is delivered for the upload, isProcessing is false again so that the
\* button Back is enabled, and nothing happens to the upload any more, no
\* second call of parseFile included, until the user leaves for the first
\* step.
C14_DecodeFailureIsTerminal ==
  /\ [](DecodeFailed =>
          /\ error = ProcessError(parseOutcome.value)
          /\ ~isProcessing
          /\ wizardStep = 2
          /\ extractedFields = NoRecord
          /\ delivered = <<>>)
  /\ [][DecodeFailed =>
          \/ wizardStep' = 1
          \/ UNCHANGED <<file, parsePc, decoderCalls, parseOutcome, resumePc, error,
                         isProcessing, extractedFields, delivered, wizardFields>>]_vars

\* A PDF document that the decoding library refuses has put the run into
\* the error state.
C14_DecodeFailedReached ==
  /\ DecodeFailed
  /\ fileExtension(file.name) = E_pdf
  /\ file.reads
  /\ file.cause # NoCause
  /\ decoderCalls = {"parsePdfFile"}

\* C15: after the record of an upload has been delivered, no extraction of
\* the same upload delivers again, whatever the user does in the wizard: the
\* record in the form is never replaced by a newly extracted one.
C15_ExtractedOncePerUpload == Len(delivered) <= 1

\* After a delivery the user went back to the second step and started the
\* processing of the same upload again: a second record was delivered and is
\* the record of the wizard.
C15_SecondDeliveryReplacesRecord ==
  /\ Len(delivered) = 2
  /\ wizardStep = 3
  /\ wizardFields = delivered[2][1]

\* A run of processResume has started and has neither failed nor delivered.
RunInProgress == resumePc \in {"reading", "steps", "extracting", "delivering"}

\* C16: while a run of processResume is in progress, the start button is
\* not on the page and the button Back is disabled, and no step starts
\* another run or another parseFile call, mounts the ResumeParser again or
\* changes the upload: at most one decode of the upload is under way.
C16_OneDecodeInFlight ==
  /\ [](RunInProgress => wizardStep = 2 /\ hasStarted /\ isProcessing)
  /\ [][RunInProgress =>
          /\ file' = file
          /\ decoderCalls' = decoderCalls
          /\ resumePc' \notin {"ready", "unmounted"}
          /\ resumePc' = "reading" => resumePc = "reading"
          /\ parsePc' \in {parsePc, "done"}]_vars

\* The decoder of a PDF upload has been called and has not settled.
C16_DecodeInFlight ==
  /\ resumePc = "reading"
  /\ parsePc = "parsePdfFile"
  /\ decoderCalls = {"parsePdfFile"}
  /\ hasStarted
  /\ isProcessing

(***************************************************************************)
(* The confidence badges of the forms                                      *)
(***************************************************************************)
\* getConfidenceBadge returns null.
NoBadge == "no badge"

\* getConfidenceBadge(fieldName) of the form that is given the map: the
\* label of the badge; the map holds hundredths.
getConfidenceBadge(confidenceMap, fieldName) ==
  IF fieldName \notin DOMAIN confidenceMap THEN NoBadge
  ELSE IF confidenceMap[fieldName] = 0 THEN NoBadge
  ELSE IF confidenceMap[fieldName] > 80 THEN "High"
  ELSE IF confidenceMap[fieldName] > 50 THEN "Medium"
  ELSE "Low"

\* The fields next to which the forms put the badge.
BadgeFields ==
  { "name", "email", "phone", "location", "summary", "experience", "education",
    "skills" }

\* C17: at the edit step every field whose confidence in the map is 0 has a
\* badge, and the badge of a field is High above 0.8, Medium above 0.5 and
\* Low otherwise.
C17_ZeroConfidenceIsFlagged ==
  wizardStep = 4 =>
    \A fieldName \in BadgeFields :
      /\ fieldName \in DOMAIN extractedConfidence
      /\ getConfidenceBadge(extractedConfidence, fieldName) =
           IF extractedConfidence[fieldName] > 80 THEN "High"
           ELSE IF extractedConfidence[fieldName] > 50 THEN "Medium"
           ELSE "Low"

\* At the edit step the email, which was not found and has confidence 0,
\* has no badge, next to fields with a High, a Medium and a Low badge.
C17_EmptyFieldWithoutBadge ==
  /\ wizardStep = 4
  /\ wizardFields.email = <<>>
  /\ extractedConfidence.email = 0
  /\ getConfidenceBadge(extractedConfidence, "email") = NoBadge
  /\ { getConfidenceBadge(extractedConfidence, fieldName) : fieldName \in BadgeFields }
       = { NoBadge, "High", "Medium", "Low" }

(***************************************************************************)
(* The extraction scenario                                                 *)
(***************************************************************************)
S_Name == Chars("John A. Smith")

S_Email == Chars("john.smith@email.com")

S_Job == Chars("Senior Engineer at Acme Corp (2020-Present)")

S_Degree == Chars("B.S. Computer Science, MIT (2016-2020)")

\* The lines of a scenario: the contact block, the experience section with
\* what stands for its elided rest, and the education section.
ScenarioLines(phone, location, rest, gap, experience, education) ==
  << S_Name, S_Email, phone, location >> \o gap
    \o << experience, S_Job >> \o rest \o gap \o << education, S_Degree >>

ScenarioText(phone, location, rest, gap, experience, education) ==
  join(ScenarioLines(phone, location, rest, gap, experience, education), <<"\n">>)

\* The text of the scenario as it is written, with the elision as a line.
TheScenario ==
  ScenarioText(Chars("(415) 555-0199"), Chars("San Francisco, CA"), << Chars("...") >>,
               << <<>> >>, Chars("EXPERIENCE"), Chars("EDUCATION"))

\* The scenario and its variants: another spelling of the phone, cities of
\* one and of two words, the elision as a line, as nothing or as a line of
\* text, sections set apart by an empty line or not, headers in capitals or
\* not.
ScenarioTexts ==
  { ScenarioText(phone, location, rest, gap, headers[1], headers[2]) :
      phone \in { Chars("(415) 555-0199"), Chars("415-555-0199") },
      location \in { Chars("San Francisco, CA"), Chars("Boston, MA"),
                     Chars("New York, NY") },
      rest \in { << Chars("...") >>, <<>>, << Chars("led a team of 5") >> },
      gap \in { << <<>> >>, <<>> },
      headers \in { << Chars("EXPERIENCE"), Chars("EDUCATION") >>,
                    << Chars("Experience"), Chars("Education:") >> } }

ScenarioInit ==
  /\ TemplateIdle
  /\ ParserInit({NoFile})
  /\ AIInit
  /\ WizardAtParser
  /\ resumePc = "ready"
  /\ stepIndex = 0
  /\ isProcessing = FALSE
  /\ hasStarted = FALSE
  /\ isComplete = FALSE
  /\ progress = 0
  /\ currentStep = ""
  /\ error = Null
  /\ fileContent \in ScenarioTexts
  /\ reply = NoRecord
  /\ extractedFields = NoRecord
  /\ confidenceScores = NoRecord
  /\ calls = <<>>
  /\ delivered = <<>>

ScenarioNext == ExtractFallback \/ DiscardRecord

SpecScenario == ScenarioInit /\ [][ScenarioNext]_vars

\* The fourth line of the text.
LocationLine(content) == split(content, "\n")[4]

\* C18: for the scenario (the lines of the name, the email, the phone and the
\* location, then the experience section and the education section),
\* extractFallback gives the name 'John A. Smith', the email, a phone with
\* '415' and '0199', the whole line of the location, an experience with
\* 'Acme Corp' and an education with 'MIT'.
C18_ScenarioIsExtracted ==
  extractedFields # NoRecord =>
    /\ extractedFields.name = S_Name
    /\ extractedFields.email = S_Email
    /\ includes(extractedFields.phone, Chars("415"))
    /\ includes(extractedFields.phone, Chars("0199"))
    /\ extractedFields.location = LocationLine(fileContent)
    /\ includes(extractedFields.experience, Chars("Acme Corp"))
    /\ includes(extractedFields.education, Chars("MIT"))

\* The scenario as written was extracted with the last word of the city as
\* the city.
C18_CityLostItsFirstWord ==
  /\ fileContent = TheScenario
  /\ extractedFields # NoRecord
  /\ extractedFields.location = Chars("Francisco, CA")

(***************************************************************************)
(* The skills of a text                                                    *)
(***************************************************************************)
SkillKeywords ==
  << "skills", "technical skills", "core competencies", "expertise", "technologies" >>

\* What a resume says about tools in its running text.
SkillSentences ==
  { Chars("experienced with Python, React, and Docker"),
    Chars("wrote PYTHON and javascript, then python once more"),
    Chars("ran the mill for a decade"),
    Chars("kept the books of a small shop") }

\* The skills section of a resume: none, one with a body, one whose body
\* reads as a header, one with no body, one under another keyword.
SkillSections ==
  { <<>>,
    << Chars("Skills"), Chars("go and sql") >>,
    << Chars("SKILLS:"), Chars("Python") >>,
    << Chars("Skills"), <<>>, Chars("Education") >>,
    << Chars("Technical Skills"), Chars("- Docker, Redis") >> }

SkillEndings ==
  { <<>>, << Chars("Education"), Chars("b.s. in rust and linux studies") >>,
    << Chars("Summary"), Chars("keen on azure") >> }

SkillTexts ==
  { join(<< Chars("Jane Roe"), sentence >> \o section \o ending, <<"\n">>) :
      sentence \in SkillSentences, section \in SkillSections, ending \in SkillEndings }

SkillsInit ==
  /\ TemplateIdle
  /\ ParserInit({NoFile})
  /\ AIInit
  /\ WizardAtParser
  /\ resumePc = "ready"
  /\ stepIndex = 0
  /\ isProcessing = FALSE
  /\ hasStarted = FALSE
  /\ isComplete = FALSE
  /\ progress = 0
  /\ currentStep = ""
  /\ error = Null
  /\ fileContent \in SkillTexts
  /\ reply = NoRecord
  /\ extractedFields = NoRecord
  /\ confidenceScores = NoRecord
  /\ calls = <<>>
  /\ delivered = <<>>

SkillsNext == ExtractFallback \/ DiscardRecord

SpecSkills == SkillsInit /\ [][SkillsNext]_vars

\* The name occurs in the text, case ignored.
OccursIn(name, text) ==
  \E i \in 1..Len(text) :
    /\ i + Len(name) - 1 <= Len(text)
    /\ toLowerCase(SubSeq(text, i, i + Len(name) - 1)) = toLowerCase(name)

\* The entries of a list written with commas.
ListEntries(list) ==
  IF list = <<>> THEN <<>>
  ELSE [i \in 1..Len(split(list, ",")) |-> trim(split(list, ",")[i])]

DictionaryNames == { Chars(commonSkills[i]) : i \in 1..Len(commonSkills) }

\* The value is a list of the dictionary names that occur in the text, each
\* once, joined by ", ".
IsDictionaryScan(value, text) ==
  /\ \A name \in DictionaryNames :
       OccursIn(name, text) <=> \E i \in 1..Len(ListEntries(value)) : ListEntries(value)[i] = name
  /\ \A i, j \in 1..Len(ListEntries(value)) :
       ListEntries(value)[i] = ListEntries(value)[j] => i = j
  /\ \A i \in 1..Len(ListEntries(value)) : ListEntries(value)[i] \in DictionaryNames
  /\ value = join(ListEntries(value), Chars(", "))

\* C19: the skills of a record are the body of the skills section when a
\* section has one, and otherwise the dictionary names that occur in the text,
\* case ignored, each once and joined by ", " ("" when none occurs); a text
\* that mentions Python, React and Docker with no skills section has all three.
C19_SkillsFallback ==
  extractedFields # NoRecord =>
    IF Truthy(extractSectionFallback(fileContent, SkillKeywords))
      THEN extractedFields.skills = extractSectionFallback(fileContent, SkillKeywords)
      ELSE /\ IsDictionaryScan(extractedFields.skills, fileContent)
           /\ (\A name \in DictionaryNames : ~OccursIn(name, fileContent))
                => extractedFields.skills = <<>>
           /\ (\A name \in { Chars("Python"), Chars("React"), Chars("Docker") } :
                 OccursIn(name, fileContent))
                => \A name \in { Chars("Python"), Chars("React"), Chars("Docker") } :
                     includes(extractedFields.skills, name)

\* The text that mentions Python, React and Docker and has no skills section
\* was extracted, with the three names as its skills.
C19_ThreeSkillsScanned ==
  /\ fileContent = join(<< Chars("Jane Roe"),
                           Chars("experienced with Python, React, and Docker") >>, <<"\n">>)
  /\ extractedFields # NoRecord
  /\ extractedFields.skills = Chars("Python, React, Docker")

(***************************************************************************)
(* Calls of the extractor one after another                                *)
(***************************************************************************)
MaxCalls == 3

\* What a call has taken and given.
CallOf(content, record) ==
  [content |-> content, record |-> record, confidence |-> confidenceScoresOf(record)]

\* A call that hands on what the call before it found, where it found
\* something.
CallExtractFallbackKeeping(content) ==
  /\ Len(calls) < MaxCalls
  /\ fileContent' = content
  /\ extractedFields' =
       [key \in DOMAIN extractFallback(content) |->
          IF extractedFields # NoRecord /\ Truthy(extractedFields[key])
            THEN extractedFields[key] ELSE extractFallback(content)[key]]
  /\ confidenceScores' = confidenceScoresOf(extractedFields')
  /\ calls' = Append(calls, CallOf(content, extractedFields'))
  /\ UNCHANGED <<reply, resumePc, stepIndex, flagVars, delivered, aiVars, templateVars,
                 parserVars, wizardVars>>

\* extractFallback(content) is called and the confidence map is computed from
\* the record as processResume computes it.  The patterns are literals inside
\* the methods: every call evaluates them anew, and match and replace leave
\* nothing in them that a later call could read.
CallExtractFallback(content) ==
  /\ Len(calls) < MaxCalls
  /\ fileContent' = content
  /\ extractedFields' = extractFallback(content)
  /\ confidenceScores' = confidenceScoresOf(extractedFields')
  /\ calls' = Append(calls, CallOf(content, extractedFields'))
  /\ UNCHANGED <<reply, resumePc, stepIndex, flagVars, delivered, aiVars, templateVars,
                 parserVars, wizardVars>>

CallTexts ==
  { TheScenario, Filler, <<>>,
    join(<< Chars("Jane Roe"), Chars("experienced with Python, React, and Docker") >>,
         <<"\n">>),
    join(<< Chars("Ann Lee"), Chars("ann@lee.io"), Chars("Skills"), Chars("go and sql") >>,
         <<"\n">>) }

CallsInit ==
  /\ TemplateIdle
  /\ ParserInit({NoFile})
  /\ AIInit
  /\ WizardAtParser
  /\ resumePc = "ready"
  /\ stepIndex = 0
  /\ isProcessing = FALSE
  /\ hasStarted = FALSE
  /\ isComplete = FALSE
  /\ progress = 0
  /\ currentStep = ""
  /\ error = Null
  /\ fileContent = <<>>
  /\ reply = NoRecord
  /\ extractedFields = NoRecord
  /\ confidenceScores = NoRecord
  /\ calls = <<>>
  /\ delivered = <<>>

CallsNext == \E content \in CallTexts : CallExtractFallback(content)

SpecCalls == CallsInit /\ [][CallsNext]_vars

D_next == <<"1","/","3">>

\* replacePlaceholders is called on the template and the record it was called
\* on before, while the caller still holds the output of that call.
ProcessTemplateAgain ==
  /\ processedContent # NoOutput
  /\ processedContent' = replacePlaceholders(templateContent, fields, currentDate)
  /\ UNCHANGED <<templateContent, fields, currentDate, templatePc, templateResult,
                 parserVars, resumeVars>>

\* Midnight passes: new Date().toLocaleDateString() gives the next day.
DayPasses ==
  /\ currentDate = D_short
  /\ currentDate' = D_next
  /\ UNCHANGED <<templateContent, fields, processedContent, templatePc, templateResult,
                 parserVars, resumeVars>>

RepeatPalette ==
  { DoubleBrace(Chars("date")), Square(Chars("DATE")), DoubleBrace(Chars("name")),
    <<" ">>, <<"x">> }

RepeatInit ==
  TemplateInit(TextsOf(RepeatPalette, MaxPieces),
               { RecordWith([name |-> V_Jane]), RecordWith(<<>>) }, {D_short})

RepeatNext == ProcessTemplate \/ ProcessTemplateAgain \/ DiscardOutput \/ DayPasses

SpecRepeat == RepeatInit /\ [][RepeatNext]_vars

\* C21: replacePlaceholders leaves the template text and the record as they
\* are, and a call on the template and the record of an earlier call returns
\* the output of that call, whenever it is made.
C21_SameInputsSameOutput ==
  [][/\ templateContent' = templateContent
     /\ fields' = fields
     /\ (processedContent # NoOutput /\ processedContent' # NoOutput)
          => processedContent' = processedContent]_vars

\* The template {{date}} was processed the day before: the caller holds the
\* date of that day, and a call now gives the date of today.
C21_OutputOfYesterday ==
  /\ templateContent = DoubleBrace(Chars("date"))
  /\ currentDate = D_next
  /\ processedContent = D_short
  /\ replacePlaceholders(templateContent, fields, currentDate) = D_next

(***************************************************************************)
(* The sections of a text                                                  *)
(***************************************************************************)
MaxSectionLines == 4

\* Headers of the summary in either letter case and under two keywords, a
\* header between spaces, body lines that read as text or begin with a capital
\* without being a header, and an empty line.
SectionPalette ==
  { Chars(" Summary "), Chars("profile:"), Chars("keen on work"), <<>>,
    Chars("Go 4 it") }

SectionTexts ==
  UNION { { join(t, <<"\n">>) : t \in [1..k -> SectionPalette] } : k \in 1..MaxSectionLines }

SectionInit ==
  /\ TemplateIdle
  /\ ParserInit({NoFile})
  /\ AIInit
  /\ WizardAtParser
  /\ resumePc = "ready"
  /\ stepIndex = 0
  /\ isProcessing = FALSE
  /\ hasStarted = FALSE
  /\ isComplete = FALSE
  /\ progress = 0
  /\ currentStep = ""
  /\ error = Null
  /\ fileContent \in SectionTexts
  /\ reply = NoRecord
  /\ extractedFields = NoRecord
  /\ confidenceScores = NoRecord
  /\ calls = <<>>
  /\ delivered = <<>>

SectionNext == ExtractFallback \/ DiscardRecord

SpecSection == SectionInit /\ [][SectionNext]_vars

\* The text without the white space at its ends.
Stripped(text) ==
  IF \A i \in 1..Len(text) : text[i] \in SpaceChars THEN <<>>
  ELSE SubSeq(text,
              CHOOSE i \in 1..Len(text) :
                text[i] \notin SpaceChars /\ \A h \in 1..(i - 1) : text[h] \in SpaceChars,
              CHOOSE j \in 1..Len(text) :
                text[j] \notin SpaceChars /\ \A h \in (j + 1)..Len(text) : text[h] \in SpaceChars)

\* The line is the keyword, in any letter case, with or without a colon.
IsHeaderOf(line, keyword) ==
  \/ toLowerCase(Stripped(line)) = Chars(keyword)
  \/ /\ Stripped(line) # <<>>
     /\ Stripped(line)[Len(Stripped(line))] = ":"
     /\ toLowerCase(Stripped(SubSeq(Stripped(line), 1, Len(Stripped(line)) - 1)))
          = Chars(keyword)

\* The line looks like a section header: a capital, then letters and spaces,
\* then a colon or none, less than 50 characters in all.
LooksLikeHeader(line) ==
  /\ Len(line) >= 2
  /\ Len(line) < 50
  /\ line[1] \in UpperChars
  /\ line[2] \in LetterChars \cup SpaceChars
  /\ \A i \in 2..(Len(line) - 1) : line[i] \in LetterChars \cup SpaceChars
  /\ line[Len(line)] \in LetterChars \cup SpaceChars \cup {":"}

\* The index after the body of the header at line i: the first later line
\* that looks like a header, or the end.
BodyEnd(lines, i) ==
  IF \E j \in (i + 1)..Len(lines) : LooksLikeHeader(Stripped(lines[j]))
    THEN CHOOSE j \in (i + 1)..Len(lines) :
           /\ LooksLikeHeader(Stripped(lines[j]))
           /\ \A h \in (i + 1)..(j - 1) : ~LooksLikeHeader(Stripped(lines[h]))
    ELSE Len(lines) + 1

\* The body of the header at line i: the lines up to its end that are not
\* empty.
BodyOf(lines, i) ==
  SelectSeq([j \in 1..(BodyEnd(lines, i) - i - 1) |-> Stripped(lines[i + j])],
            LAMBDA line : line # <<>>)

\* The keyword has a header with a body in the text.
Yields(lines, keyword) ==
  \E i \in 1..Len(lines) : IsHeaderOf(lines[i], keyword) /\ BodyOf(lines, i) # <<>>

\* The section of the text under the keywords, as the claim describes it.
SectionAsDescribed(lines, keywords) ==
  IF \A k \in 1..Len(keywords) : ~Yields(lines, keywords[k]) THEN <<>>
  ELSE LET k == CHOOSE k \in 1..Len(keywords) :
                  Yields(lines, keywords[k])
                    /\ \A h \in 1..(k - 1) : ~Yields(lines, keywords[h])
           i == CHOOSE i \in 1..Len(lines) :
                  /\ IsHeaderOf(lines[i], keywords[k]) /\ BodyOf(lines, i) # <<>>
                  /\ \A h \in 1..(i - 1) :
                       ~(IsHeaderOf(lines[h], keywords[k]) /\ BodyOf(lines, h) # <<>>)
       IN  join(BodyOf(lines, i), <<"\n">>)

\* C22: a section of the record is the body of the first keyword of its list
\* that has a header with a non-empty body in the text: the non-empty lines
\* after the header up to the first line that looks like a header or to the
\* end, joined by newlines; it is "" when no keyword has one, and it has
\* neither an empty line nor a line that looks like a header.
C22_SectionIsTheBody ==
  extractedFields # NoRecord =>
    /\ extractedFields.summary
         = SectionAsDescribed(split(fileContent, "\n"),
                              << "summary", "profile", "objective", "about" >>)
    /\ \A key \in {"summary", "education", "experience", "projects"} :
         extractedFields[key] # <<>> =>
           \A n \in 1..Len(split(extractedFields[key], "\n")) :
             /\ split(extractedFields[key], "\n")[n] # <<>>
             /\ ~LooksLikeHeader(split(extractedFields[key], "\n")[n])

\* The header of the second keyword comes first in the text and the record
\* has the body of the first keyword, which ends at the next header.
C22_FirstKeywordWins ==
  /\ fileContent = join(<< Chars("profile:"), Chars("Go 4 it"), Chars(" Summary "),
                           Chars("keen on work") >>, <<"\n">>)
  /\ extractedFields # NoRecord
  /\ extractedFields.summary = Chars("keen on work")

(***************************************************************************)
(* Sections of any length                                                  *)
(***************************************************************************)
\* A paragraph of n sentences of nine characters on one line: 10 n - 1
\* characters.
Paragraph(n) == [i \in 1..(10 * n - 1) |-> Chars("did a job ")[((i - 1) % 10) + 1]]

\* The header of each section field, which is its first keyword.
SectionHeaders ==
  [summary |-> "Summary", experience |-> "Experience", education |-> "Education",
   skills |-> "Skills", projects |-> "Projects", certifications |-> "Certification",
   languages |-> "Language", achievements |-> "Achievement"]

SectionKeys == DOMAIN SectionHeaders

\* The numbers of sentences: paragraphs of 9, 199, 499, 509, 999, 1009 and
\* 1199 characters.
ParagraphSizes == {1, 20, 50, 51, 100, 101, 120}

LongText(key, n) == Chars(SectionHeaders[key]) \o <<"\n">> \o Paragraph(n)

LongTexts == { LongText(key, n) : key \in SectionKeys, n \in ParagraphSizes }

LongInit ==
  /\ TemplateIdle
  /\ ParserInit({NoFile})
  /\ AIInit
  /\ WizardAtParser
  /\ resumePc = "ready"
  /\ stepIndex = 0
  /\ isProcessing = FALSE
  /\ hasStarted = FALSE
  /\ isComplete = FALSE
  /\ progress = 0
  /\ currentStep = ""
  /\ error = Null
  /\ fileContent \in LongTexts
  /\ reply = NoRecord
  /\ extractedFields = NoRecord
  /\ confidenceScores = NoRecord
  /\ calls = <<>>
  /\ delivered = <<>>

LongNext == ExtractFallback \/ DiscardRecord

SpecLong == LongInit /\ [][LongNext]_vars

\* C23: no section field of an extracted record is longer than 1000
\* characters, and the summary is not longer than 500, however long the
\* section is in the text.
C23_SectionsAreTruncated ==
  extractedFields # NoRecord =>
    /\ Len(extractedFields.summary) <= 500
    /\ \A key \in SectionKeys : Len(extractedFields[key]) <= 1000

\* The experience section of 1009 characters was extracted whole.
C23_LongSectionKeptWhole ==
  /\ fileContent = LongText("experience", 101)
  /\ extractedFields # NoRecord
  /\ extractedFields.experience = Paragraph(101)
  /\ Len(extractedFields.experience) = 1009

(***************************************************************************)
(* The phone of a text                                                     *)
(***************************************************************************)
\* Numbers in the national and the international spelling, with and without
\* a label, of ten digits and more and of fewer.
PhonePalette ==
  { Chars("(415) 555-0199"), Chars("555 123 456"), Chars("123456789"),
    Chars("tel: 555-0199"), Chars("Phone: 020 7946 0958"), Chars("+44 20 7946 0958"),
    Chars("Jane Roe") }

PhoneInit ==
  /\ TemplateIdle
  /\ ParserInit({NoFile})
  /\ AIInit
  /\ WizardAtParser
  /\ resumePc = "ready"
  /\ stepIndex = 0
  /\ isProcessing = FALSE
  /\ hasStarted = FALSE
  /\ isComplete = FALSE
  /\ progress = 0
  /\ currentStep = ""
  /\ error = Null
  /\ fileContent \in LinesOf(PhonePalette, MaxLines)
  /\ reply = NoRecord
  /\ extractedFields = NoRecord
  /\ confidenceScores = NoRecord
  /\ calls = <<>>
  /\ delivered = <<>>

PhoneNext == ExtractFallback \/ DiscardRecord

SpecPhone == PhoneInit /\ [][PhoneNext]_vars

\* The number of digits of a text.
DigitsIn(text) == Cardinality({ i \in 1..Len(text) : text[i] \in DigitChars })

\* The patterns that have a match in the text.
PatternsThatHit(content) ==
  { k \in 1..Len(PhonePatterns) : matchAll(content, PhonePatterns[k]) # <<>> }

\* The longest match of the first pattern that has one, without its label.
PhoneCandidate(content) ==
  trim(replace(Longest(matchAll(content, PhonePatterns[MinOrZero(PatternsThatHit(content))])),
               PhoneLabelRegex, <<>>))

\* C24: the phone is decided by the first pattern of the list that has a match
\* in the text: it is the longest match of that pattern without its label when
\* that has at least 10 digits, and "" otherwise or when no pattern has a
\* match; so a phone that is not empty has at least 10 digits.
C24_PhoneByFirstPattern ==
  extractedFields # NoRecord =>
    /\ extractedFields.phone =
         IF PatternsThatHit(fileContent) = {} THEN <<>>
         ELSE IF DigitsIn(PhoneCandidate(fileContent)) >= 10
           THEN PhoneCandidate(fileContent)
           ELSE <<>>
    /\ extractedFields.phone # <<>> => DigitsIn(extractedFields.phone) >= 10

\* A number of nine digits in three groups is the phone of the record.
C24_NineDigitPhone ==
  /\ fileContent = Chars("555 123 456")
  /\ extractedFields # NoRecord
  /\ extractedFields.phone = Chars("555 123 456")
  /\ DigitsIn(extractedFields.phone) = 9

(***************************************************************************)
(* Values that read as placeholders or as replacement patterns             *)
(***************************************************************************)
V_Mail == Chars("e@x.io")

\* Plain values, and values with the replacement pattern $&, with the
\* spelling of a placeholder of another field or of the date, with each kind
\* of bracket, and with a colon at the end.
VerbatimValues ==
  { V_Jane, Chars("Ann-Lee"), Chars("a.b"), Chars("x y"), Chars("a$&b"), Chars("$$"),
    DoubleBrace(Chars("email")), DoubleBrace(Chars("name")), DoubleBrace(Chars("date")),
    SingleBrace(Chars("x")), Square(Chars("x")), Angle(Chars("x")), Chars("Jane:") }

\* The templates that are one placeholder of the name or of the email.
VerbatimTemplates == BareSpellings(Chars("name")) \cup BareSpellings(Chars("email"))

VerbatimInit ==
  TemplateInit(VerbatimTemplates,
               { RecordWith([name |-> v, email |-> V_Mail]) : v \in VerbatimValues }
                 \cup { RecordWith([name |-> V_Jane, email |-> v]) : v \in VerbatimValues },
               {D_short})

SpecVerbatim == VerbatimInit /\ [][TemplateNext]_vars

\* C25: a template that is one placeholder of a field whose value is not
\* empty gives the value as its output, whatever characters the value is made
\* of.
C25_ValueIsInsertedVerbatim ==
  processedContent # NoOutput =>
    \A key \in {"name", "email"} :
      (templateContent \in BareSpellings(Chars(key)) /\ HasValue(Get(fields, key)))
        => processedContent = Get(fields, key)

\* The name is the spelling of the placeholder of the email: the output of
\* the template {{name}} is the email of the record.
C25_ValueReadAsPlaceholder ==
  /\ templateContent = DoubleBrace(Chars("name"))
  /\ fields.name = DoubleBrace(Chars("email"))
  /\ processedContent = V_Mail

(***************************************************************************)
(* The template selector and the export step                               *)
(***************************************************************************)
\* steps.length of generateResume.
GenerationSteps == 8

\* maxSize of validateTemplateFile, 5 * 1024 * 1024.
MaxTemplateSize == 5242880

\* The generateResume calls of one page, and the uploads into one selector.
MaxExportRuns == 2

MaxTemplates == 1

exportFormats == { "pdf", "docx", "html" }

\* `custom-${Date.now()}`: the clock is later at every upload.
CustomIds == << "custom-1", "custom-2", "custom-3", "custom-4" >>

\* /\.(docx|doc)$/i
TemplateExtensionRegex ==
  Seq_(<< One("."), Alt(<< LitCI(E_docx), LitCI(E_doc) >>), Eos >>)

\* /\s+/g
SpacesRegex == Plus(Space)

\* validateTemplateFile(file): the toast it shows, none when it accepts the
\* file.
validateTemplateFile(upload) ==
  IF fileExtension(upload.name) \notin { E_docx, E_doc }
    THEN Toast("Invalid file type", <<"Please upload a DOCX or DOC template file.">>)
  ELSE IF upload.size > MaxTemplateSize
    THEN Toast("File too large", <<"Template file must be smaller than 5MB.">>)
  ELSE NoToast

\* handleTemplateUpload(file) of the TemplateSelector; the template is kept
\* in the state of the component and nowhere else.
handleTemplateUpload(upload) ==
  /\ wizardStep = 3
  /\ Len(customTemplates) < MaxTemplates
  /\ IF validateTemplateFile(upload) = NoToast
       THEN LET customTemplate ==
                  [id |-> CustomIds[Len(customTemplates) + 1],
                   name |-> replace(upload.name, TemplateExtensionRegex, <<>>),
                   file |-> upload]
            IN  /\ customTemplates' = Append(customTemplates, customTemplate)
                /\ selectorChoice' = customTemplate.id
                /\ toast' = Toast("Template uploaded successfully",
                                  customTemplate.name \o <<" is ready to use.">>)
       ELSE /\ toast' = validateTemplateFile(upload)
            /\ UNCHANGED selectorVars
  /\ UNCHANGED <<localStorage, isGenerating, generationProgress, exportComplete,
                 previewUrl, exportRuns, exportOutcomes, downloads, wizardStep,
                 wizardFields, extractedConfidence, selectedTemplate, templateVars,
                 parserVars, resumePc, stepIndex, flagVars, extractVars, delivered,
                 aiVars>>

\* removeCustomTemplate(templateId) of the TemplateSelector.
removeCustomTemplate(templateId) ==
  /\ wizardStep = 3
  /\ \E i \in DOMAIN customTemplates : customTemplates[i].id = templateId
  /\ customTemplates' = SelectSeq(customTemplates, LAMBDA t : t.id # templateId)
  /\ selectorChoice' = IF selectorChoice = templateId THEN "" ELSE selectorChoice
  /\ toast' = Toast("Template removed", <<"Custom template has been deleted.">>)
  /\ UNCHANGED <<localStorage, isGenerating, generationProgress, exportComplete,
                 previewUrl, exportRuns, exportOutcomes, downloads, wizardStep,
                 wizardFields, extractedConfidence, selectedTemplate, templateVars,
                 parserVars, resumePc, stepIndex, flagVars, extractVars, delivered,
                 aiVars>>

\* One section of the page generateResumeContent writes.
HtmlSection(title, value) ==
  <<"<div class=\"section\">", title>> \o value \o <<"</div>">>

\* The sections of the fields that are shown whenever they are not empty.
HtmlWhenSet(title, value) ==
  IF Truthy(value) THEN HtmlSection(title, value) ELSE <<>>

\* The sections of the fields that are shown when they have more than blanks.
HtmlWhenNotBlank(title, value) ==
  IF Truthy(value) /\ Truthy(trim(value)) THEN HtmlSection(title, value) ELSE <<>>

\* fields.email, fields.phone and fields.location, filter(Boolean), joined.
HtmlContact(record) ==
  LET set == SelectSeq(<<record.email, record.phone, record.location>>, Truthy)
  IN  IF Truthy(join(set, Chars(" | "))) THEN join(set, Chars(" | "))
      ELSE Chars("[Contact Information]")

\* The page of a predefined template.
HtmlResume(record) ==
  <<"<title>">> \o (IF Truthy(record.name) THEN record.name ELSE Chars("Resume"))
  \o <<" - Resume</title>", "<h1>">>
  \o (IF Truthy(record.name) THEN record.name ELSE Chars("[Your Name]"))
  \o <<"</h1>">> \o HtmlContact(record)
  \o HtmlWhenSet("Professional Summary", record.summary)
  \o HtmlWhenSet("Work Experience", record.experience)
  \o HtmlWhenSet("Education", record.education)
  \o HtmlWhenSet("Skills", record.skills)
  \o HtmlWhenNotBlank("Projects", record.projects)
  \o HtmlWhenNotBlank("Certifications", record.certifications)
  \o HtmlWhenNotBlank("Languages", record.languages)
  \o HtmlWhenNotBlank("Achievements", record.achievements)

\* The template of the storage with the id, or Undefined: find of the parsed
\* item.
StoredTemplate(storage, templateId) ==
  LET hits == { i \in DOMAIN storage : storage[i].id = templateId }
  IN  IF hits = {} THEN Undefined ELSE storage[MinOrZero(hits)]

NotFoundMessage == <<"Custom template not found. Please re-upload your template.">>

\* generateResumeContent of a build whose page for the browser cannot be
\* written.
generateResumeContentWithoutPage(record, templateId, format, storage) ==
  IF startsWith(Chars(templateId), Chars("custom-"))
    THEN Thrown(NotFoundMessage)
  ELSE IF format = "html" THEN Thrown(<<"out of memory">>)
  ELSE [content |-> <<"resume-content-blob">>]

\* generateResumeContent(fields, templateId, format) up to the call of
\* processCustomTemplate: what it throws, the content it returns, or the
\* stored template it hands to the TemplateProcessor.
generateResumeContent(record, templateId, format, storage) ==
  IF startsWith(Chars(templateId), Chars("custom-"))
    THEN LET template == StoredTemplate(storage, templateId)
         IN  IF template # Undefined /\ Truthy(template.fileData)
               THEN [process |-> template]
               ELSE Thrown(NotFoundMessage)
  ELSE IF format = "html" THEN [content |-> HtmlResume(record)]
  ELSE [content |-> <<"resume-content-blob">>]

\* link.download of downloadFile.
DownloadName(record, format) ==
  replace(record.name, SpacesRegex, <<"_">>) \o Chars("_Resume.") \o Chars(format)

\* A generateResume call as it starts: the format, the props of the render in
\* which the card was clicked, the steps done, and whether the component it
\* was started in is still on the page.
NewRun(format) ==
  [format |-> format, templateId |-> selectedTemplate, fields |-> wizardFields,
   done |-> 0, pc |-> "steps", live |-> TRUE]

\* generateResume(format) to its first await.  The onClick of the card calls
\* it; the button inside the card is disabled while isGenerating, the card
\* is not.
generateResume(format) ==
  /\ wizardStep = 4
  /\ Len(exportRuns) < MaxExportRuns
  /\ isGenerating' = TRUE
  /\ generationProgress' = 0
  /\ exportRuns' = Append(exportRuns, NewRun(format))
  /\ UNCHANGED <<localStorage, exportComplete, previewUrl, exportOutcomes, downloads,
                 toast, selectorVars, wizardStep, wizardFields, extractedConfidence,
                 selectedTemplate, templateVars, parserVars, resumePc, stepIndex,
                 flagVars, extractVars, delivered, aiVars>>

\* The description of the toast of a run that succeeded.
SuccessDescription(run) ==
  <<"Your ">> \o toUpperCase(Chars(run.format)) \o <<" resume has been processed with ">>
  \o (IF startsWith(Chars(run.templateId), Chars("custom-"))
        THEN <<"your custom template.">> ELSE <<"the selected template.">>)

\* The end of generateResume for run r with what generateResumeContent gave:
\* the catch block, or downloadFile or setPreviewUrl and the success.  The
\* setters of a component that has left the page do nothing.
SettleRun(r, outcome) ==
  LET run == exportRuns[r]
  IN  IF IsThrown(outcome)
        THEN /\ exportRuns' = [exportRuns EXCEPT ![r].done = GenerationSteps,
                                                 ![r].pc = "failed"]
             /\ isGenerating' = IF run.live THEN FALSE ELSE isGenerating
             /\ exportOutcomes' = IF run.live THEN Append(exportOutcomes, "failed")
                                  ELSE exportOutcomes
             /\ toast' = Toast("Generation failed", outcome.thrown)
             /\ UNCHANGED <<exportComplete, previewUrl, downloads>>
      ELSE IF "process" \in DOMAIN outcome
        THEN /\ exportRuns' = [exportRuns EXCEPT ![r].done = GenerationSteps,
                                                 ![r].pc = "processing"]
             /\ UNCHANGED <<isGenerating, exportOutcomes, toast, exportComplete,
                            previewUrl, downloads>>
      ELSE /\ exportRuns' = [exportRuns EXCEPT ![r].done = GenerationSteps,
                                               ![r].pc = "succeeded"]
           /\ downloads' = IF run.format \in { "pdf", "docx" }
                             THEN Append(downloads, DownloadName(run.fields, run.format))
                             ELSE downloads
           /\ previewUrl' = IF run.format = "html" /\ run.live THEN outcome.content
                            ELSE previewUrl
           /\ exportComplete' = IF run.live THEN TRUE ELSE exportComplete
           /\ isGenerating' = IF run.live THEN FALSE ELSE isGenerating
           /\ exportOutcomes' = IF run.live THEN Append(exportOutcomes, "succeeded")
                                ELSE exportOutcomes
           /\ toast' = Toast("Resume generated successfully!", SuccessDescription(run))

\* The timer of a step of run r has run out: setGenerationProgress, and after
\* the last step the rest of generateResume, which waits for nothing but
\* promises that are settled.
GenerationStep(r) ==
  /\ r \in DOMAIN exportRuns
  /\ exportRuns[r].pc = "steps"
  /\ generationProgress' = IF exportRuns[r].live THEN exportRuns[r].done + 1
                           ELSE generationProgress
  /\ IF exportRuns[r].done + 1 < GenerationSteps
       THEN /\ exportRuns' = [exportRuns EXCEPT ![r].done = @ + 1]
            /\ UNCHANGED <<isGenerating, exportComplete, previewUrl, exportOutcomes,
                           downloads, toast>>
       ELSE SettleRun(r, generateResumeContent(exportRuns[r].fields,
                                               exportRuns[r].templateId,
                                               exportRuns[r].format, localStorage))
  /\ UNCHANGED <<localStorage, selectorVars, wizardStep, wizardFields,
                 extractedConfidence, selectedTemplate, templateVars, parserVars,
                 resumePc, stepIndex, flagVars, extractVars, delivered, aiVars>>

\* previewResume of the ExportSection: the page is written into a new window,
\* or the toast of the failure is shown.
previewResume ==
  /\ wizardStep = 4
  /\ LET outcome == generateResumeContent(wizardFields, selectedTemplate, "html",
                                          localStorage)
     IN  toast' = IF IsThrown(outcome) THEN Toast("Preview failed", outcome.thrown)
                  ELSE toast
  /\ UNCHANGED <<localStorage, isGenerating, generationProgress, exportComplete,
                 previewUrl, exportRuns, exportOutcomes, downloads, selectorVars,
                 wizardStep, wizardFields, extractedConfidence, selectedTemplate,
                 templateVars, parserVars, resumePc, stepIndex, flagVars, extractVars,
                 delivered, aiVars>>

\* The files the user offers as templates.
TemplateUploads ==
  { [name |-> Chars("two col.docx"), size |-> 20480],
    [name |-> Chars("cv.pdf"), size |-> 20480],
    [name |-> Chars("big.DOC"), size |-> MaxTemplateSize + 1] }

\* A template an earlier version of the page may have left in the storage.
StaleTemplate ==
  [id |-> "custom-0", name |-> Chars("kept"), fileData |-> <<80, 75>>]

\* The file of the resume, and the record the extractor makes of it.
ExportUpload ==
  [name |-> Stem \o <<".">> \o E_txt, reads |-> TRUE, cause |-> NoCause,
   text |-> Filler \o <<"\n">> \o Chars("John Smith"),
   pages |-> << <<Filler \o <<"\n">> \o Chars("John Smith")>> >>]

\* The page as handleFieldsExtracted leaves it: the third step, with the
\* record of the file and the ResumeParser at its end.
ExportInit ==
  /\ TemplateIdle
  /\ AIInit
  /\ file = ExportUpload
  /\ parsePc = "done"
  /\ decoderCalls = {"parseTxtFile"}
  /\ parseOutcome = Resolved(ExportUpload.text)
  /\ resumePc = "done"
  /\ stepIndex = Len(processingSteps)
  /\ isProcessing = FALSE
  /\ hasStarted = TRUE
  /\ isComplete = TRUE
  /\ progress = Len(processingSteps) * 100
  /\ currentStep = "Processing complete!"
  /\ error = Null
  /\ fileContent = ExportUpload.text
  /\ reply = NoRecord
  /\ extractedFields = extractFallback(ExportUpload.text)
  /\ confidenceScores = confidenceScoresOf(extractedFields)
  /\ calls = <<>>
  /\ delivered = << <<extractedFields, confidenceScores>> >>
  /\ wizardStep = 3
  /\ wizardFields = extractedFields
  /\ extractedConfidence = confidenceScores
  /\ selectedTemplate = ""
  /\ SelectorIdle
  /\ ExportIdle
  /\ localStorage \in { <<>>, <<StaleTemplate>> }

\* The formats of the cards that are clicked, and the predefined template
\* that is.
ClickedFormats == { "pdf", "html" }

ClickedTemplates == { "modern-professional" }

ExportNext ==
  \/ \E templateId \in ClickedTemplates \cup { customTemplates[i].id : i \in DOMAIN customTemplates } :
       handleTemplateSelect(templateId)
  \/ \E upload \in TemplateUploads : handleTemplateUpload(upload)
  \/ \E i \in DOMAIN customTemplates : removeCustomTemplate(customTemplates[i].id)
  \/ handleContinue
  \/ \E format \in ClickedFormats : generateResume(format)
  \/ \E r \in DOMAIN exportRuns : GenerationStep(r)
  \/ previewResume
  \/ wizardStep = 4 /\ Back

SpecExport == ExportInit /\ [][ExportNext]_vars

\* The generateResume calls of the mounted ExportSection that have not ended.
RunsInProgress ==
  { r \in DOMAIN exportRuns : exportRuns[r].live /\ exportRuns[r].pc = "steps" }

\* The calls that have ended for a template the user uploaded.
CustomRunsEnded ==
  { r \in DOMAIN exportRuns :
      /\ startsWith(Chars(exportRuns[r].templateId), Chars("custom-"))
      /\ exportRuns[r].pc # "steps" }

\* C26: a template that handleTemplateUpload accepted and the user continued
\* with is found by generateResumeContent, which hands it to
\* processCustomTemplate: no run for the id of an uploaded template ends with
\* 'Custom template not found'.
C26_UploadedTemplateIsFound ==
  \A r \in CustomRunsEnded : exportRuns[r].pc = "processing"

\* The template of "two col.docx" was uploaded and continued with, and the
\* run for its id has ended with the toast of the template that is not found.
C26_UploadedTemplateIsNotFound ==
  /\ wizardStep = 4
  /\ selectedTemplate = "custom-1"
  /\ \E r \in CustomRunsEnded : exportRuns[r].live /\ exportRuns[r].pc = "failed"
  /\ toast = Toast("Generation failed", NotFoundMessage)

\* C27: at most one generateResume call of the export step is under way at
\* any time, and isGenerating is false only when none is.
C27_OneRunAtATime ==
  /\ Cardinality(RunsInProgress) <= 1
  /\ (wizardStep = 4 /\ ~isGenerating) => RunsInProgress = {}

\* Two cards were clicked one after the other: the first call has ended and
\* set isGenerating to false while the second is still at its steps.
C27_SecondRunUnderWay ==
  /\ wizardStep = 4
  /\ Len(exportRuns) = 2
  /\ exportRuns[1].live /\ exportRuns[1].pc = "succeeded"
  /\ exportRuns[2].live /\ exportRuns[2].pc = "steps"
  /\ ~isGenerating

\* C28: whenever isComplete of the ExportSection is true and isGenerating is
\* false, the generateResume call that ended last succeeded; after a call
\* that failed, isComplete is false.
C28_PanelReflectsLatest ==
  /\ (exportComplete /\ ~isGenerating) =>
       (exportOutcomes # <<>> /\ exportOutcomes[Len(exportOutcomes)] = "succeeded")
  /\ (exportOutcomes # <<>> /\ exportOutcomes[Len(exportOutcomes)] = "failed") =>
       ~exportComplete

\* A resume was generated with a predefined template; the user went back,
\* uploaded a template and continued with it, and the call for it failed: the
\* success panel is not shown.
C28_FailedAfterSuccess ==
  /\ wizardStep = 4
  /\ Len(exportRuns) = 2
  /\ ~exportRuns[1].live /\ exportRuns[1].pc = "succeeded"
  /\ exportRuns[2].live /\ exportRuns[2].pc = "failed"
  /\ exportOutcomes = <<"failed">>
  /\ ~exportComplete
  /\ ~isGenerating

(***************************************************************************)
(* The steps of the page                                                   *)
(***************************************************************************)
\* What holds of the page at each of its steps.
StepsAreBacked ==
  /\ wizardStep \in 1..4
  /\ wizardStep >= 2 => file # NoFile
  /\ wizardStep >= 3 => wizardFields # NoRecord
  /\ wizardStep = 4 => selectedTemplate # ""

\* A step of the page that lowers currentStep.
StepIsLowered == wizardStep' < wizardStep

\* C29: over every sequence of uploads, deliveries, selections of a template
\* and clicks on Back, currentStep is in 1..4, from step 2 on there is an
\* uploaded file, at steps 3 and 4 there is an extracted record, at step 4 a
\* template id that is not empty, and currentStep is lowered by exactly one,
\* never below 1 and never while isProcessing is true.
C29_StepsOfThePage ==
  /\ []StepsAreBacked
  /\ [][StepIsLowered =>
          (wizardStep' = wizardStep - 1 /\ wizardStep' >= 1 /\ ~isProcessing)]_vars

\* The user went back from the third step to the second, the record was
\* delivered a second time, and a template was selected and continued with.
C29_FourthStepAfterBack ==
  /\ wizardStep = 4
  /\ Len(delivered) = 2
  /\ selectedTemplate = "creative-designer"
  /\ wizardFields # NoRecord
  /\ file # NoFile

(***************************************************************************)
(* One run of processResume from its start to its end                      *)
(***************************************************************************)
\* The steps of a run that the browser takes by itself: the events of the
\* FileReader, the promises that settle, the timer of extractResumeFields and
\* the timer of the delivery.  The click that starts the run is the user's.
ResumeScheduled ==
  \/ TxtOnLoad \/ TxtOnError
  \/ PdfOnLoad \/ PdfOnError
  \/ DocxOnLoad \/ DocxOnError
  \/ ContentRead \/ ExtractionDone \/ Deliver

\* The timer of a processing step runs out: the steps of StepDone, told by
\* the one variable each of them changes.
StepTimer == resumePc = "steps" /\ stepIndex' = stepIndex + 1

\* The uploads of ResumeFiles with a text that is processed, with one that is
\* too short and with none.
FairFiles ==
  { upload \in ResumeFiles :
      upload.text \in { Filler \o <<"\n">> \o Chars("John Smith"), Chars("John Smith"),
                        <<>> } }

FairInit == TemplateIdle /\ ParserInit(FairFiles) /\ ResumeInit

\* An event that is due is delivered in the end.
SpecResumeFair ==
  /\ FairInit
  /\ [][ResumeNext]_vars
  /\ WF_vars(ResumeScheduled)
  /\ WF_stepIndex(StepTimer)

\* The progress after the last of the processing steps: 100 percent.
FullProgress == Len(processingSteps) * 100

\* The order of a run as its state shows it: the extractor is called when the
\* steps are over, isComplete is set when the extractor has returned, the
\* record is delivered when isComplete is set, and a run that has ended has
\* delivered the record of the extractor once.
RunIsInOrder ==
  /\ progress <= FullProgress
  /\ extractedFields # NoRecord => progress = FullProgress
  /\ isComplete => (extractedFields # NoRecord /\ confidenceScores # NoRecord)
  /\ delivered # <<>> => isComplete
  /\ Len(delivered) <= 1
  /\ resumePc = "done" =>
       (delivered = << <<extractedFields, confidenceScores>> >> /\ ~isProcessing)
  /\ ~(isComplete /\ error # Null)

\* The order of a run as its steps show it: the progress never falls, and the
\* step that delivers the record delivers one record and is the step that
\* sets isProcessing to false.
StepIsInOrder ==
  /\ progress' >= progress
  /\ delivered' # delivered =>
       /\ Len(delivered') = Len(delivered) + 1
       /\ isProcessing /\ ~isProcessing'
  /\ (isComplete /\ isProcessing /\ ~isProcessing') => delivered' # delivered

\* C30: in a run of processResume the progress rises to 100 through the
\* processing steps, then the extractor runs, then isComplete is set, then
\* onFieldsExtracted is called exactly once in the step that sets isProcessing
\* to false; isComplete and the error are never both set; and isProcessing
\* becomes false again on every path.
C30_RunIsDeliveredInOrder ==
  /\ []RunIsInOrder
  /\ [][StepIsInOrder]_vars
  /\ (isProcessing ~> ~isProcessing)

\* A run has ended with its one delivery: the progress is full, isComplete is
\* set, there is no error and isProcessing is false again.
C30_RunHasDelivered ==
  /\ resumePc = "done"
  /\ Len(delivered) = 1
  /\ progress = FullProgress
  /\ isComplete
  /\ error = Null
  /\ ~isProcessing
  /\ hasStarted

=============================================================================
